---- MODULE Spec2Model ----
(***************************************************************************)
(* Boundary checking and todo reconciliation of pks.                       *)
(*                                                                         *)
(* The state is the project on disk (pack manifests, the references the    *)
(* sources contain, the recorded package_todo ledger and the text of the   *)
(* package_todo.yml files) and the outcome of the last command.  One       *)
(* action per CLI command: check, update, add_dependency, validate.        *)
(***************************************************************************)
EXTENDS Integers, FiniteSets, Sequences, TLC

VARIABLES packs, references, recorded, last, added, todo_files, packs_first_mode

vars == <<packs, references, recorded, last, added, todo_files, packs_first_mode>>

(***************************************************************************)
(* Bounds                                                                  *)
(***************************************************************************)
\* at most this many entries in the ledger of the initial project
MaxRecorded == 1
\* at most this many dependency edges are written by add_dependency
MaxAdded == 2
\* at most this many entries in a hand-edited package_todo.yml
MaxTodoLen == 2
\* at most this many definitions of one fully-qualified name
MaxDefinitions == 2

(***************************************************************************)
(* Vocabulary                                                              *)
(***************************************************************************)
NoneVal == "None"

CheckerTypes == {"Dependency", "Privacy", "FolderPrivacy", "Visibility", "Layer"}

\* Option<CheckerSetting>: absent, or False / True / Strict
Settings == {NoneVal, "False", "True", "Strict"}

RootPack == "."
Foo == "packs/foo"
Bar == "packs/bar"
PackNames == {RootPack, Foo, Bar}

FooFile == "packs/foo/app/services/foo.rb"
OtherFooFile == "packs/foo/app/services/other_foo.rb"
BarFile == "packs/bar/app/services/bar.rb"
GoneFile == "packs/foo/app/services/gone.rb"

\* the directory of a manifest that is the nearest ancestor of the file
FileDir(file) ==
    CASE file = FooFile -> Foo
      [] file = OtherFooFile -> Foo
      [] file = GoneFile -> Foo
      [] file = BarFile -> Bar
      [] OTHER -> RootPack

\* glob patterns of ignore rules, and the files they match
FooGlob == "packs/foo/**"
BarGlob == "packs/bar/**"

GlobMatches(glob, file) ==
    \/ glob = FooGlob /\ FileDir(file) = Foo
    \/ glob = BarGlob /\ FileDir(file) = Bar

\* global layer order of packwerk.yml, highest layer first
LayerOrder == <<"product", "utilities">>

LayerIndex(layer) == CHOOSE i \in 1..Len(LayerOrder) : LayerOrder[i] = layer

(***************************************************************************)
(* Run flags: the global options of one invocation (cli.rs)                *)
(***************************************************************************)
MakeFlags(disabled, ignore_recorded) ==
    [ disable_enforce_dependencies   |-> "Dependency" \in disabled,
      disable_enforce_privacy        |-> "Privacy" \in disabled,
      disable_enforce_folder_privacy |-> "FolderPrivacy" \in disabled,
      disable_enforce_visibility     |-> "Visibility" \in disabled,
      disable_enforce_layers         |-> "Layer" \in disabled,
      ignore_recorded_violations     |-> ignore_recorded ]

\* the --disable-enforce-* flags of a run: none, or one checker type
DisabledChoices == {{}} \cup { {t} : t \in CheckerTypes }

\* the flags of a check: the ledger applies with each choice of disabled
\* type, and is ignored with nothing or the Dependency checker disabled
FlagChoices ==
    { MakeFlags(D, FALSE) : D \in DisabledChoices }
      \cup { MakeFlags(D, TRUE) : D \in {{}, {"Dependency"}} }

DefaultFlags == MakeFlags({}, FALSE)

\* Configuration: the pack set and ledgers read from disk, and the run flags
MakeConfiguration(pack_set, all_violations, flags) ==
    [ pack_set                       |-> pack_set,
      all_violations                 |-> all_violations,
      disable_enforce_dependencies   |-> flags.disable_enforce_dependencies,
      disable_enforce_privacy        |-> flags.disable_enforce_privacy,
      disable_enforce_folder_privacy |-> flags.disable_enforce_folder_privacy,
      disable_enforce_visibility     |-> flags.disable_enforce_visibility,
      disable_enforce_layers         |-> flags.disable_enforce_layers,
      ignore_recorded_violations     |-> flags.ignore_recorded_violations ]

(***************************************************************************)
(* References found in the sources                                         *)
(***************************************************************************)
MakeReference(constant, def_pack, def_file, ref_pack, ref_file, line, column) ==
    [ constant_name             |-> constant,
      defining_pack_name        |-> def_pack,
      relative_defining_file    |-> def_file,
      referencing_pack_name     |-> ref_pack,
      relative_referencing_file |-> ref_file,
      source_location           |-> <<line, column>> ]

\* packs/foo/app/services/foo.rb:3:4 references ::Bar of packs/bar
FooToBar == MakeReference("::Bar", Bar, BarFile, Foo, FooFile, 3, 4)
\* packs/bar/app/services/bar.rb:3:4 references ::Foo of packs/foo
BarToFoo == MakeReference("::Foo", Foo, FooFile, Bar, BarFile, 3, 4)
\* packs/foo references its own constant
FooToFoo == MakeReference("::Foo", Foo, FooFile, Foo, OtherFooFile, 5, 2)
\* a constant no file of the project defines
FooToUnknown == MakeReference("::Unknown", NoneVal, NoneVal, Foo, FooFile, 7, 2)

AllReferences == {FooToBar, BarToFoo, FooToFoo, FooToUnknown}

(***************************************************************************)
(* CheckerSetting (pack.rs)                                                *)
(***************************************************************************)
is_false(setting) == setting = "False"

is_strict_setting(setting) == setting = "Strict"

(***************************************************************************)
(* PackChecker (checker/pack_checker.rs)                                   *)
(***************************************************************************)
referencing_pack(reference, configuration) ==
    configuration.pack_set[reference.referencing_pack_name]

\* Option<&Pack>: only meaningful when the defining pack is resolved
defining_pack(reference, configuration) ==
    configuration.pack_set[reference.defining_pack_name]

violation_direction(checker_type) ==
    IF checker_type \in {"Dependency", "Layer"}
    THEN "Outgoing"
    ELSE "Incoming"

checker_setting_for(checker_setting) ==
    IF checker_setting = NoneVal THEN "False" ELSE checker_setting

\* as rules_pack, with the two directions exchanged
rules_pack_exchanged(checker_type, reference, configuration) ==
    IF violation_direction(checker_type) = "Outgoing"
    THEN defining_pack(reference, configuration)
    ELSE referencing_pack(reference, configuration)

rules_pack(checker_type, reference, configuration) ==
    IF violation_direction(checker_type) = "Outgoing"
    THEN referencing_pack(reference, configuration)
    ELSE defining_pack(reference, configuration)

\* Pack::enforce_folder_privacy(): the setting, disabled when absent
enforce_folder_privacy(pack) ==
    IF pack.enforce_folder_privacy = NoneVal
    THEN "False"
    ELSE pack.enforce_folder_privacy

rules_checker_setting(checker_type, reference, configuration) ==
    CASE checker_type = "Dependency" ->
           checker_setting_for(rules_pack(checker_type, reference, configuration).enforce_dependencies)
      [] checker_type = "FolderPrivacy" ->
           enforce_folder_privacy(rules_pack(checker_type, reference, configuration))
      [] checker_type = "Layer" ->
           checker_setting_for(rules_pack(checker_type, reference, configuration).enforce_layers)
      [] checker_type = "Privacy" ->
           checker_setting_for(rules_pack(checker_type, reference, configuration).enforce_privacy)
      [] checker_type = "Visibility" ->
           checker_setting_for(rules_pack(checker_type, reference, configuration).enforce_visibility)

\* as violation_globally_disabled, with Privacy and FolderPrivacy both
\* answering to --disable-enforce-privacy
violation_globally_disabled_shared_flag(checker_type, configuration) ==
    CASE checker_type = "Dependency" -> configuration.disable_enforce_dependencies
      [] checker_type = "FolderPrivacy" -> configuration.disable_enforce_privacy
      [] checker_type = "Layer" -> configuration.disable_enforce_layers
      [] checker_type = "Privacy" -> configuration.disable_enforce_privacy
      [] checker_type = "Visibility" -> configuration.disable_enforce_visibility

violation_globally_disabled(checker_type, configuration) ==
    CASE checker_type = "Dependency" -> configuration.disable_enforce_dependencies
      [] checker_type = "FolderPrivacy" -> configuration.disable_enforce_folder_privacy
      [] checker_type = "Layer" -> configuration.disable_enforce_layers
      [] checker_type = "Privacy" -> configuration.disable_enforce_privacy
      [] checker_type = "Visibility" -> configuration.disable_enforce_visibility

\* Pack::is_ignored(file, checker_name): some ignore rule of the pack that
\* lists this checker glob-matches the file
pack_is_ignored(pack, file_path, checker_type) ==
    \E rule \in pack.enforcement_globs_ignore :
        /\ checker_type \in rule.enforcements
        /\ GlobMatches(rule.ignores, file_path)

\* as is_ignored, matching the referencing file in both directions
is_ignored_referencing_file(checker_type, reference, configuration) ==
    pack_is_ignored(rules_pack(checker_type, reference, configuration),
                    reference.relative_referencing_file, checker_type)

is_ignored(checker_type, reference, configuration) ==
    LET file_path == IF violation_direction(checker_type) = "Incoming"
                     THEN reference.relative_referencing_file
                     ELSE reference.relative_defining_file
    IN  pack_is_ignored(rules_pack(checker_type, reference, configuration), file_path, checker_type)

\* as checkable, without the run-wide override
checkable_without_global_flag(checker_type, reference, configuration) ==
    IF reference.defining_pack_name = NoneVal THEN FALSE
    ELSE IF reference.defining_pack_name = reference.referencing_pack_name THEN FALSE
    ELSE IF is_false(rules_checker_setting(checker_type, reference, configuration)) THEN FALSE
    ELSE IF is_ignored(checker_type, reference, configuration) THEN FALSE
    ELSE TRUE

\* as checkable, without the test that the two packs differ
checkable_without_self_test(checker_type, reference, configuration) ==
    IF reference.defining_pack_name = NoneVal THEN FALSE
    ELSE IF is_false(rules_checker_setting(checker_type, reference, configuration)) THEN FALSE
    ELSE IF violation_globally_disabled(checker_type, configuration) THEN FALSE
    ELSE IF is_ignored(checker_type, reference, configuration) THEN FALSE
    ELSE TRUE

checkable(checker_type, reference, configuration) ==
    IF reference.defining_pack_name = NoneVal THEN FALSE
    ELSE IF reference.defining_pack_name = reference.referencing_pack_name THEN FALSE
    ELSE IF is_false(rules_checker_setting(checker_type, reference, configuration)) THEN FALSE
    ELSE IF violation_globally_disabled(checker_type, configuration) THEN FALSE
    ELSE IF is_ignored(checker_type, reference, configuration) THEN FALSE
    ELSE TRUE

\* as is_strict, reading the setting of the referencing pack for every type
is_strict_of_referencing_pack(checker_type, reference, configuration) ==
    is_strict_setting(rules_checker_setting("Dependency", reference, configuration))

is_strict(checker_type, reference, configuration) ==
    is_strict_setting(rules_checker_setting(checker_type, reference, configuration))

\* as violation_identifier, naming the defining file
violation_identifier_defining_file(checker_type, reference, configuration) ==
    [ violation_type        |-> checker_type,
      strict                |-> is_strict(checker_type, reference, configuration),
      file                  |-> reference.relative_defining_file,
      constant_name         |-> reference.constant_name,
      referencing_pack_name |-> referencing_pack(reference, configuration).name,
      defining_pack_name    |-> defining_pack(reference, configuration).name ]

\* as violation_identifier, with the two pack names exchanged
violation_identifier_packs_exchanged(checker_type, reference, configuration) ==
    [ violation_type        |-> checker_type,
      strict                |-> is_strict(checker_type, reference, configuration),
      file                  |-> reference.relative_referencing_file,
      constant_name         |-> reference.constant_name,
      referencing_pack_name |-> defining_pack(reference, configuration).name,
      defining_pack_name    |-> referencing_pack(reference, configuration).name ]

violation_identifier(checker_type, reference, configuration) ==
    [ violation_type        |-> checker_type,
      strict                |-> is_strict(checker_type, reference, configuration),
      file                  |-> reference.relative_referencing_file,
      constant_name         |-> reference.constant_name,
      referencing_pack_name |-> referencing_pack(reference, configuration).name,
      defining_pack_name    |-> defining_pack(reference, configuration).name ]

\* as violation, without the layer names
violation_without_layers(checker_type, reference, configuration, layer_info) ==
    [ identifier                    |-> violation_identifier(checker_type, reference, configuration),
      source_location               |-> reference.source_location,
      referencing_pack_relative_yml |-> referencing_pack(reference, configuration).relative_yml,
      defining_layer                |-> NoneVal,
      referencing_layer             |-> NoneVal ]

\* layer_info is <<>> (None) or <<defining layer, referencing layer>>
violation(checker_type, reference, configuration, layer_info) ==
    [ identifier                    |-> violation_identifier(checker_type, reference, configuration),
      source_location               |-> reference.source_location,
      referencing_pack_relative_yml |-> referencing_pack(reference, configuration).relative_yml,
      defining_layer                |-> IF layer_info = <<>> THEN NoneVal ELSE layer_info[1],
      referencing_layer             |-> IF layer_info = <<>> THEN NoneVal ELSE layer_info[2] ]

(***************************************************************************)
(* The five checkers (checker/dependency.rs, privacy.rs, folder_privacy.rs,*)
(* visibility.rs, layer.rs): no violation, or the one of the reference     *)
(***************************************************************************)
\* defining layer strictly higher than the referencing layer
layer_higher(defining_layer, referencing_layer) ==
    LayerIndex(defining_layer) < LayerIndex(referencing_layer)

dependency_check(reference, configuration) ==
    IF ~checkable("Dependency", reference, configuration) THEN {}
    ELSE IF defining_pack(reference, configuration).name \in referencing_pack(reference, configuration).dependencies
    THEN {}
    ELSE {violation("Dependency", reference, configuration, <<>>)}

privacy_check(reference, configuration) ==
    IF ~checkable("Privacy", reference, configuration) THEN {}
    ELSE IF reference.relative_defining_file \in defining_pack(reference, configuration).public_files
    THEN {}
    ELSE {violation("Privacy", reference, configuration, <<>>)}

folder_privacy_check(reference, configuration) ==
    IF ~checkable("FolderPrivacy", reference, configuration) THEN {}
    ELSE IF reference.relative_defining_file \in defining_pack(reference, configuration).public_folder_files
    THEN {}
    ELSE {violation("FolderPrivacy", reference, configuration, <<>>)}

visibility_check(reference, configuration) ==
    IF ~checkable("Visibility", reference, configuration) THEN {}
    ELSE IF referencing_pack(reference, configuration).name \in defining_pack(reference, configuration).visible_to
    THEN {}
    ELSE {violation("Visibility", reference, configuration, <<>>)}

layer_check(reference, configuration) ==
    IF ~checkable("Layer", reference, configuration) THEN {}
    ELSE IF \/ referencing_pack(reference, configuration).layer = NoneVal
            \/ defining_pack(reference, configuration).layer = NoneVal
    THEN {}
    ELSE IF ~layer_higher(defining_pack(reference, configuration).layer,
                          referencing_pack(reference, configuration).layer)
    THEN {}
    ELSE IF defining_pack(reference, configuration).name
              \in referencing_pack(reference, configuration).layer_exceptions
    THEN {}
    ELSE {violation("Layer", reference, configuration,
                    <<defining_pack(reference, configuration).layer,
                      referencing_pack(reference, configuration).layer>>)}

checker_check(checker_type, reference, configuration) ==
    CASE checker_type = "Dependency" -> dependency_check(reference, configuration)
      [] checker_type = "Privacy" -> privacy_check(reference, configuration)
      [] checker_type = "FolderPrivacy" -> folder_privacy_check(reference, configuration)
      [] checker_type = "Visibility" -> visibility_check(reference, configuration)
      [] checker_type = "Layer" -> layer_check(reference, configuration)

(***************************************************************************)
(* check_all and update (checker.rs)                                       *)
(***************************************************************************)
get_all_violations(configuration) ==
    UNION { checker_check(t, r, configuration) : t \in CheckerTypes, r \in references }

build_reportable_violations(found, configuration) ==
    { v \in found :
        /\ ~v.identifier.strict
        /\ \/ configuration.ignore_recorded_violations
           \/ v.identifier \notin configuration.all_violations }

build_stale_violations(found, configuration) ==
    { e \in configuration.all_violations : e \notin { v.identifier : v \in found } }

build_strict_mode_violations(found) ==
    { v \in found : v.identifier.strict }

check_all(configuration) ==
    LET found == get_all_violations(configuration)
    IN  [ found_violations       |-> found,
          reportable_violations  |-> build_reportable_violations(found, configuration),
          stale_violations       |-> build_stale_violations(found, configuration),
          strict_mode_violations |-> build_strict_mode_violations(found) ]

\* the ledgers update writes: the identifiers of the non-strict violations
update_recorded(configuration) ==
    { v.identifier : v \in { w \in get_all_violations(configuration) :
                                ~w.identifier.strict } }

(***************************************************************************)
(* validate_all (checker.rs), as far as add_dependency depends on it: the  *)
(* dependency names resolve and no pack reaches itself                     *)
(***************************************************************************)
RECURSIVE reachable_from(_, _, _)
reachable_from(pack_set, frontier, steps) ==
    IF steps = 0 THEN frontier
    ELSE LET next == UNION { pack_set[p].dependencies \cap DOMAIN pack_set :
                               p \in frontier }
         IN  reachable_from(pack_set, frontier \cup next, steps - 1)

has_cycle(pack_set) ==
    \E p \in DOMAIN pack_set :
        p \in reachable_from(pack_set,
                             pack_set[p].dependencies \cap DOMAIN pack_set,
                             Cardinality(DOMAIN pack_set))

has_unresolved_dependency(pack_set) ==
    \E p \in DOMAIN pack_set : ~(pack_set[p].dependencies \subseteq DOMAIN pack_set)

validate_is_err(pack_set) ==
    has_unresolved_dependency(pack_set) \/ has_cycle(pack_set)

(***************************************************************************)
(* package_todo.yml as text: a header comment naming the pack and the      *)
(* command that regenerates the file, and the entries in the order they    *)
(* are written.  A file may also be unreadable, or hold text that does not *)
(* parse as a PackageTodo.                                                 *)
(***************************************************************************)
\* alphabetical order of the violation types, constants and files of a ledger
ViolationTypeOrder == <<"Dependency", "FolderPrivacy", "Layer", "Privacy", "Visibility">>
ConstantOrder == <<"::Bar", "::Foo">>
FileOrder == <<BarFile, FooFile, GoneFile, OtherFooFile>>

Position(order, x) == CHOOSE i \in 1..Len(order) : order[i] = x

\* the canonical order: by violation type, then constant name, then file
entry_before(a, b) ==
    LET ta == Position(ViolationTypeOrder, a.violation_type)
        tb == Position(ViolationTypeOrder, b.violation_type)
        ca == Position(ConstantOrder, a.constant_name)
        cb == Position(ConstantOrder, b.constant_name)
        fa == Position(FileOrder, a.file)
        fb == Position(FileOrder, b.file)
    IN  \/ ta < tb
        \/ ta = tb /\ ca < cb
        \/ ta = tb /\ ca = cb /\ fa < fb

RECURSIVE sorted_entries(_)
sorted_entries(entries) ==
    IF entries = {} THEN <<>>
    ELSE LET first == CHOOSE e \in entries :
                          \A o \in entries \ {e} : entry_before(e, o)
         IN  <<first>> \o sorted_entries(entries \ {first})

PksUpdate == "pks update"
PackwerkUpdateTodo == "bin/packwerk update-todo"

update_command(first_mode) ==
    IF first_mode THEN PksUpdate ELSE PackwerkUpdateTodo

\* the header comment: the pack the file belongs to and the command to run
todo_header(pack_name, first_mode) == <<pack_name, update_command(first_mode)>>

MakeTodoFile(kind, head, entries) ==
    [ kind |-> kind, header |-> head, entries |-> entries ]

UnreadableFile == MakeTodoFile("unreadable", <<>>, <<>>)
UnparseableFile == MakeTodoFile("unparseable", <<>>, <<>>)

\* serde_yaml::from_str: the PackageTodo of a text that parses; the header
\* comment, the order of the entries and repeated entries are not part of it
package_todo_from_str(content) ==
    { content.entries[i] : i \in 1..Len(content.entries) }

serialize_package_todo(responsible_pack_name, package_todo, first_mode) ==
    MakeTodoFile("yaml", todo_header(responsible_pack_name, first_mode),
                 sorted_entries(package_todo))

\* the files update leaves on disk: one per pack that has an entry
write_violations_to_disk(violations, pack_set, first_mode) ==
    [ p \in DOMAIN pack_set |->
        LET mine == { e \in violations : e.referencing_pack_name = p }
        IN  IF mine = {} THEN {}
            ELSE {serialize_package_todo(p, mine, first_mode)} ]

\* the ledgers the configuration holds: the entries of the files that parse
recorded_in(files) ==
    UNION { package_todo_from_str(f) :
              f \in { g \in UNION { files[p] : p \in DOMAIN files } : g.kind = "yaml" } }

\* a ledger file that cannot be loaded is a configuration error
ledgers_load(files) ==
    \A p \in DOMAIN files : \A f \in files[p] : f.kind = "yaml"

(***************************************************************************)
(* The format validator of package_todo.yml (checker/package_todo.rs)      *)
(***************************************************************************)
MakeError(kind, pack_name, command) ==
    [ kind |-> kind, pack |-> pack_name, command |-> command ]

\* a sequence in reverse order
RECURSIVE reversed(_)
reversed(seq) ==
    IF seq = <<>> THEN <<>> ELSE reversed(Tail(seq)) \o <<Head(seq)>>

\* as expected_content, writing the entries in the reverse of the order read
expected_content_reversed(file, pack_name, first_mode) ==
    MakeTodoFile("yaml", todo_header(pack_name, first_mode), reversed(file.entries))

\* the text deserialized and serialized again by the standard writer
expected_content(file, pack_name, first_mode) ==
    LET package_todo == package_todo_from_str(file)
    IN  serialize_package_todo(pack_name, package_todo, first_mode)

\* as validate_package_todo_format, comparing the entries and not the header
validate_package_todo_format_entries_only(file, pack_name, first_mode) ==
    IF file.kind = "unreadable" THEN {MakeError("read", pack_name, NoneVal)}
    ELSE IF file.kind = "unparseable" THEN {MakeError("parse", pack_name, NoneVal)}
    ELSE IF file.entries # expected_content(file, pack_name, first_mode).entries
    THEN {MakeError("format", pack_name,
                    IF first_mode THEN PksUpdate ELSE PackwerkUpdateTodo)}
    ELSE {}

\* Result<(), String>: the empty set, or the error
validate_package_todo_format(file, pack_name, first_mode) ==
    IF file.kind = "unreadable" THEN {MakeError("read", pack_name, NoneVal)}
    ELSE IF file.kind = "unparseable" THEN {MakeError("parse", pack_name, NoneVal)}
    ELSE IF file # expected_content(file, pack_name, first_mode)
    THEN {MakeError("format", pack_name,
                    IF first_mode THEN PksUpdate ELSE PackwerkUpdateTodo)}
    ELSE {}

\* Checker::validate: the errors of the packs that have a package_todo.yml
package_todo_validate(pack_set, files, first_mode) ==
    UNION { UNION { validate_package_todo_format(f, pack_set[p].name, first_mode) :
                      f \in files[p] } :
              p \in DOMAIN pack_set }

\* the errors of the dependency graph: names that do not resolve, and cycles
dependency_errors(pack_set) ==
    { MakeError("unresolved", p, NoneVal) :
        p \in { q \in DOMAIN pack_set :
                  ~(pack_set[q].dependencies \subseteq DOMAIN pack_set) } }
    \cup { MakeError("cycle", p, NoneVal) :
             p \in { q \in DOMAIN pack_set :
                       q \in reachable_from(pack_set,
                                            pack_set[q].dependencies \cap DOMAIN pack_set,
                                            Cardinality(DOMAIN pack_set)) } }

\* validate_all: every validator runs, their errors are collected
validate_all(pack_set, files, first_mode) ==
    dependency_errors(pack_set) \cup package_todo_validate(pack_set, files, first_mode)

(***************************************************************************)
(* Projects the commands start from                                        *)
(***************************************************************************)
\* the keys of a package.yml in the order the file lists them
ManifestKeys == <<"enforce_dependencies", "enforce_privacy", "layer", "dependencies">>

MakePack(pack_name, enforce, policy, ignore_rules) ==
    [ name                     |-> pack_name,
      relative_yml             |-> IF pack_name = RootPack THEN "package.yml"
                                   ELSE IF pack_name = Foo THEN "packs/foo/package.yml"
                                   ELSE "packs/bar/package.yml",
      dependencies             |-> policy.dependencies,
      enforce_dependencies     |-> enforce["Dependency"],
      enforce_privacy          |-> enforce["Privacy"],
      enforce_folder_privacy   |-> enforce["FolderPrivacy"],
      enforce_visibility       |-> enforce["Visibility"],
      enforce_layers           |-> enforce["Layer"],
      layer                    |-> policy.layer,
      layer_exceptions         |-> policy.layer_exceptions,
      public_files             |-> policy.public_files,
      public_folder_files      |-> policy.public_folder_files,
      visible_to               |-> policy.visible_to,
      enforcement_globs_ignore |-> ignore_rules,
      key_order                |-> ManifestKeys ]

MakePolicy(deps, layer, exceptions, public, visible) ==
    [ dependencies        |-> deps,
      layer               |-> layer,
      layer_exceptions    |-> exceptions,
      public_files        |-> public,
      public_folder_files |-> public,
      visible_to          |-> visible ]

DefaultPolicy == MakePolicy({}, NoneVal, {}, {}, {})

\* 1: nothing declared, packs/bar in a higher layer than packs/foo
\* 2: packs/foo declares packs/bar, packs/bar is public and visible, same layer
\* 3: packs/bar declares packs/foo, packs/foo is public and visible and has no layer
\* 4: as 1, and packs/foo is allowed to reference the higher packs/bar
\* 5: as 1, and packs/foo declares a pack that does not exist
\* 6: packs/foo declares packs/bar, packs/bar the root pack, the root pack packs/foo
Scenarios == 1..6

ScenarioPolicy(scenario, pack_name) ==
    CASE pack_name = RootPack /\ scenario = 6 -> MakePolicy({Foo}, NoneVal, {}, {}, {})
      [] pack_name = RootPack /\ scenario # 6 -> DefaultPolicy
      [] pack_name = Foo /\ scenario = 1 -> MakePolicy({}, "utilities", {}, {}, {})
      [] pack_name = Bar /\ scenario = 1 -> MakePolicy({}, "product", {}, {}, {})
      [] pack_name = Foo /\ scenario = 2 -> MakePolicy({Bar}, "product", {}, {}, {})
      [] pack_name = Bar /\ scenario = 2 -> MakePolicy({}, "product", {}, {BarFile}, {Foo})
      [] pack_name = Foo /\ scenario = 3 -> MakePolicy({}, NoneVal, {}, {FooFile}, {Bar})
      [] pack_name = Bar /\ scenario = 3 -> MakePolicy({Foo}, "product", {}, {}, {})
      [] pack_name = Foo /\ scenario = 4 -> MakePolicy({}, "utilities", {Bar}, {}, {})
      [] pack_name = Bar /\ scenario = 4 -> MakePolicy({}, "product", {}, {}, {})
      [] pack_name = Foo /\ scenario = 5 -> MakePolicy({"packs/missing"}, "utilities", {}, {}, {})
      [] pack_name = Bar /\ scenario = 5 -> MakePolicy({}, "product", {}, {}, {})
      [] pack_name = Foo /\ scenario = 6 -> MakePolicy({Bar}, "utilities", {}, {}, {})
      [] pack_name = Bar /\ scenario = 6 -> MakePolicy({RootPack}, "product", {}, {}, {})

NoEnforcement == [t \in CheckerTypes |-> NoneVal]

\* the pack enforces the focus type only, or every type alike
Enforcement(mode, focus, setting) ==
    [t \in CheckerTypes |-> IF mode = "all" \/ t = focus THEN setting ELSE NoneVal]

IgnoreChoices == {"none", "foo_ignores_bar", "bar_ignores_foo"}

IgnoreRules(choice, focus, pack_name) ==
    IF choice = "foo_ignores_bar" /\ pack_name = Foo
    THEN {[enforcements |-> {focus}, ignores |-> BarGlob]}
    ELSE IF choice = "bar_ignores_foo" /\ pack_name = Bar
    THEN {[enforcements |-> {focus}, ignores |-> FooGlob]}
    ELSE {}

MakeTodo(checker_type, file, constant, ref_pack, def_pack) ==
    [ violation_type        |-> checker_type,
      strict                |-> FALSE,
      file                  |-> file,
      constant_name         |-> constant,
      referencing_pack_name |-> ref_pack,
      defining_pack_name    |-> def_pack ]

\* entries a package_todo.yml of the project may hold for one checker type:
\* the reference of foo.rb to ::Bar, a file that no longer references ::Bar,
\* and a file that no longer exists
TodoCandidates(checker_type) ==
    { MakeTodo(checker_type, FooFile, "::Bar", Foo, Bar),
      MakeTodo(checker_type, OtherFooFile, "::Bar", Foo, Bar),
      MakeTodo(checker_type, GoneFile, "::Bar", Foo, Bar) }

NoCommand ==
    [ op                     |-> "none",
      flags                  |-> DefaultFlags,
      after_update           |-> FALSE,
      found_violations       |-> {},
      reportable_violations  |-> {},
      stale_violations       |-> {},
      strict_mode_violations |-> {},
      status                 |-> "ok",
      message                |-> NoneVal,
      output_format          |-> NoneVal,
      output                 |-> {},
      validation_errors      |-> {},
      args                   |-> <<>>,
      unused                 |-> {},
      count                  |-> 0,
      resolver               |-> NoneVal,
      lines                  |-> {},
      pending_raw            |-> {},
      extracted              |-> {},
      pending_check          |-> {},
      rendered               |-> <<>>,
      walked                 |-> <<>>,
      included_files         |-> {},
      included_packs         |-> {},
      owning_package_yml_for_file |-> <<>> ]

EnforcementChoices(mode) ==
    IF mode = "all" THEN {"True", "Strict"} ELSE Settings

\* the policy scenario and the ignore rule of a project
Projects ==
    { <<1, "none">>, <<1, "foo_ignores_bar">>, <<1, "bar_ignores_foo">>,
      <<2, "none">>, <<3, "none">>, <<4, "none">> }

MakePackSet(mode, focus, foo_setting, bar_setting, scenario, ignore) ==
    [ p \in PackNames |->
        MakePack(p,
                 IF p = Foo THEN Enforcement(mode, focus, foo_setting)
                 ELSE IF p = Bar THEN Enforcement(mode, focus, bar_setting)
                 ELSE NoEnforcement,
                 ScenarioPolicy(scenario, p),
                 IgnoreRules(ignore, focus, p)) ]

Init ==
    \E focus \in CheckerTypes, mode \in {"focus", "all"}, project \in Projects :
      \E foo_setting \in EnforcementChoices(mode), bar_setting \in EnforcementChoices(mode),
         todo \in SUBSET TodoCandidates(focus) :
        /\ Cardinality(todo) <= MaxRecorded
        /\ packs = MakePackSet(mode, focus, foo_setting, bar_setting,
                               project[1], project[2])
        /\ references = AllReferences
        /\ recorded = todo
        /\ last = NoCommand
        /\ added = {}
        /\ packs_first_mode = FALSE
        /\ todo_files = write_violations_to_disk(todo, packs, FALSE)

(***************************************************************************)
(* Commands (packs.rs)                                                     *)
(***************************************************************************)
\* configuration::get: the project on disk with the flags of the run
get_configuration(flags) == MakeConfiguration(packs, recorded, flags)

same_disabled(c1, c2) ==
    \A t \in CheckerTypes :
        violation_globally_disabled(t, c1) = violation_globally_disabled(t, c2)

\* configuration::get fails on a ledger that cannot be loaded: the command
\* reports the error and ends before it computes or writes anything
configuration_error(op, flags) ==
    /\ last' = [NoCommand EXCEPT !.op = op, !.flags = flags, !.status = "error",
                                  !.message = "malformed ledger"]
    /\ UNCHANGED <<packs, references, recorded, added, todo_files, packs_first_mode>>

has_violations(result) ==
    \/ result.reportable_violations # {}
    \/ result.stale_violations # {}
    \/ result.strict_mode_violations # {}

(***************************************************************************)
(* Output of check (text.rs, csv.rs, json.rs) and the exit code (main.rs)  *)
(***************************************************************************)
OutputFormats == {"packwerk", "csv", "json"}

DefaultFormat == "packwerk"

\* what a writer printed: the "No violations detected!" line, the count of
\* the "violation(s) detected:" header, the violations listed, the hint to
\* run update, the strict mode messages, and for JSON the stale todos and
\* the summary
MakeOutput(no_violations, header, rows, hint, strict_messages, stale_todos, summary) ==
    [ no_violations_detected |-> no_violations,
      header_count           |-> header,
      violation_rows         |-> rows,
      stale_hint             |-> hint,
      strict_messages        |-> strict_messages,
      stale_todos            |-> stale_todos,
      summary                |-> summary ]

identifiers_of(violations) == { v.identifier : v \in violations }

write_text(result) ==
    IF ~has_violations(result)
    THEN MakeOutput(TRUE, {}, {}, FALSE, {}, {}, {})
    ELSE MakeOutput(FALSE,
                    IF result.reportable_violations # {}
                    THEN {Cardinality(result.reportable_violations)} ELSE {},
                    identifiers_of(result.reportable_violations),
                    result.stale_violations # {},
                    identifiers_of(result.strict_mode_violations),
                    {}, {})

write_csv(result) ==
    IF result.reportable_violations # {} \/ result.strict_mode_violations # {}
    THEN MakeOutput(FALSE, {},
                    identifiers_of(result.reportable_violations
                                     \cup result.strict_mode_violations),
                    FALSE, {}, {}, {})
    ELSE MakeOutput(TRUE, {}, {}, FALSE, {}, {}, {})

\* as write_json, with success computed from the violations alone
write_json_success_without_stale(result) ==
    LET violations == result.reportable_violations \cup result.strict_mode_violations
        violation_count == Cardinality(violations)
        stale_todo_count == Cardinality(result.stale_violations)
        strict_violation_count == Cardinality(result.strict_mode_violations)
    IN  MakeOutput(FALSE, {}, identifiers_of(violations), FALSE, {},
                   result.stale_violations,
                   {[ violation_count        |-> violation_count,
                      stale_todo_count       |-> stale_todo_count,
                      strict_violation_count |-> strict_violation_count,
                      success                |-> /\ violation_count = 0
                                                 /\ strict_violation_count = 0 ]})

write_json(result) ==
    LET violations == result.reportable_violations \cup result.strict_mode_violations
        violation_count == Cardinality(violations)
        stale_todo_count == Cardinality(result.stale_violations)
        strict_violation_count == Cardinality(result.strict_mode_violations)
    IN  MakeOutput(FALSE, {}, identifiers_of(violations), FALSE, {},
                   result.stale_violations,
                   {[ violation_count        |-> violation_count,
                      stale_todo_count       |-> stale_todo_count,
                      strict_violation_count |-> strict_violation_count,
                      success                |-> /\ violation_count = 0
                                                 /\ stale_todo_count = 0
                                                 /\ strict_violation_count = 0 ]})

write_output(output_format, result) ==
    CASE output_format = "packwerk" -> write_text(result)
      [] output_format = "csv" -> write_csv(result)
      [] output_format = "json" -> write_json(result)

\* main: the process exit code of a command's outcome
\* as exit_code, with every failure reported as violations
exit_code_errors_as_violations(status) ==
    CASE status = "ok" -> 0
      [] OTHER -> 1

exit_code(status) ==
    CASE status = "ok" -> 0
      [] status = "ViolationsFound" -> 1
      [] OTHER -> 2

\* as check, returning Ok whatever the result holds
check_returning_ok(flags, output_format) ==
    IF ~ledgers_load(todo_files) THEN configuration_error("check", flags) ELSE
    LET result == check_all(get_configuration(flags))
    IN  /\ last' = [ op                     |-> "check",
                     flags                  |-> flags,
                     after_update           |-> /\ last.op = "update"
                                                /\ same_disabled(last.flags, flags),
                     found_violations       |-> result.found_violations,
                     reportable_violations  |-> result.reportable_violations,
                     stale_violations       |-> result.stale_violations,
                     strict_mode_violations |-> result.strict_mode_violations,
                     status                 |-> IF result.reportable_violations # {}
                                                   \/ result.strict_mode_violations # {}
                                                THEN "ViolationsFound" ELSE "ok",
                     message                |-> NoneVal,
                     output_format          |-> output_format,
                     output                 |-> {write_output(output_format, result)} ]
        /\ UNCHANGED <<packs, references, recorded, added, todo_files, packs_first_mode>>

check(flags, output_format) ==
    IF ~ledgers_load(todo_files) THEN configuration_error("check", flags) ELSE
    LET result == check_all(get_configuration(flags))
    IN  /\ last' = [ op                     |-> "check",
                     flags                  |-> flags,
                     after_update           |-> /\ last.op = "update"
                                                /\ same_disabled(last.flags, flags),
                     found_violations       |-> result.found_violations,
                     reportable_violations  |-> result.reportable_violations,
                     stale_violations       |-> result.stale_violations,
                     strict_mode_violations |-> result.strict_mode_violations,
                     status                 |-> IF has_violations(result)
                                                THEN "ViolationsFound" ELSE "ok",
                     message                |-> NoneVal,
                     output_format          |-> output_format,
                     output                 |-> {write_output(output_format, result)} ]
        /\ UNCHANGED <<packs, references, recorded, added, todo_files, packs_first_mode>>

\* as update, adding to the ledgers without removing an entry
update_keeping_entries(flags) ==
    IF ~ledgers_load(todo_files) THEN configuration_error("update", flags) ELSE
    /\ recorded' = recorded \cup update_recorded(get_configuration(flags))
    /\ todo_files' = write_violations_to_disk(recorded', packs, packs_first_mode)
    /\ last' = [NoCommand EXCEPT !.op = "update", !.flags = flags]
    /\ UNCHANGED <<packs, references, added, packs_first_mode>>

\* as update, leaving the ledgers as they are
update_without_writing(flags) ==
    IF ~ledgers_load(todo_files) THEN configuration_error("update", flags) ELSE
    /\ last' = [NoCommand EXCEPT !.op = "update", !.flags = flags]
    /\ UNCHANGED <<packs, references, recorded, added, todo_files, packs_first_mode>>

\* as update, writing the header of the other mode
update_with_other_header(flags) ==
    IF ~ledgers_load(todo_files) THEN configuration_error("update", flags) ELSE
    /\ recorded' = update_recorded(get_configuration(flags))
    /\ todo_files' = write_violations_to_disk(recorded', packs, ~packs_first_mode)
    /\ last' = [NoCommand EXCEPT !.op = "update", !.flags = flags]
    /\ UNCHANGED <<packs, references, added, packs_first_mode>>

update(flags) ==
    IF ~ledgers_load(todo_files) THEN configuration_error("update", flags) ELSE
    /\ recorded' = update_recorded(get_configuration(flags))
    /\ todo_files' = write_violations_to_disk(recorded', packs, packs_first_mode)
    /\ last' = [NoCommand EXCEPT !.op = "update", !.flags = flags]
    /\ UNCHANGED <<packs, references, added, packs_first_mode>>

AddNames == PackNames \cup {"packs/missing"}

\* as add_dependency, with the edge written into the manifest of the target
add_dependency_into_target(from, to) ==
    IF ~ledgers_load(todo_files) THEN configuration_error("add_dependency", DefaultFlags) ELSE
    IF from \notin DOMAIN packs
    THEN /\ last' = [NoCommand EXCEPT !.op = "add_dependency", !.status = "error",
                                      !.args = <<from, to>>,
                                      !.message = "from not found"]
         /\ UNCHANGED <<packs, references, recorded, added, todo_files, packs_first_mode>>
    ELSE IF to \notin DOMAIN packs
    THEN /\ last' = [NoCommand EXCEPT !.op = "add_dependency", !.status = "error",
                                      !.args = <<from, to>>,
                                      !.message = "to not found"]
         /\ UNCHANGED <<packs, references, recorded, added, todo_files, packs_first_mode>>
    ELSE IF packs[to].name \in packs[from].dependencies
    THEN /\ last' = [NoCommand EXCEPT !.op = "add_dependency",
                                      !.args = <<from, to>>,
                                      !.message = "already depends"]
         /\ UNCHANGED <<packs, references, recorded, added, todo_files, packs_first_mode>>
    ELSE /\ Cardinality(added) < MaxAdded
         /\ packs' = [packs EXCEPT ![to].dependencies = @ \cup {packs[from].name}]
         /\ added' = added \cup {<<from, to>>}
         /\ last' = [NoCommand EXCEPT !.op = "add_dependency",
                                      !.args = <<from, to>>,
                                      !.message = IF \/ validate_is_err(packs')
                                                     \/ package_todo_validate(packs', todo_files,
                                                                              packs_first_mode) # {}
                                                  THEN "Warning: This creates a cycle!"
                                                  ELSE "Successfully added"]
         /\ UNCHANGED <<references, recorded, todo_files, packs_first_mode>>

\* as add_dependency, writing the edge although the pack named to is missing
add_dependency_to_missing_pack(from, to) ==
    IF ~ledgers_load(todo_files) THEN configuration_error("add_dependency", DefaultFlags) ELSE
    IF from \notin DOMAIN packs
    THEN /\ last' = [NoCommand EXCEPT !.op = "add_dependency", !.status = "error",
                                      !.args = <<from, to>>,
                                      !.message = "from not found"]
         /\ UNCHANGED <<packs, references, recorded, added, todo_files, packs_first_mode>>
    ELSE IF to \notin DOMAIN packs
    THEN /\ packs' = [packs EXCEPT ![from].dependencies = @ \cup {to}]
         /\ last' = [NoCommand EXCEPT !.op = "add_dependency", !.status = "error",
                                      !.args = <<from, to>>,
                                      !.message = "to not found"]
         /\ UNCHANGED <<references, recorded, added, todo_files, packs_first_mode>>
    ELSE IF packs[to].name \in packs[from].dependencies
    THEN /\ last' = [NoCommand EXCEPT !.op = "add_dependency",
                                      !.args = <<from, to>>,
                                      !.message = "already depends"]
         /\ UNCHANGED <<packs, references, recorded, added, todo_files, packs_first_mode>>
    ELSE /\ Cardinality(added) < MaxAdded
         /\ packs' = [packs EXCEPT ![from].dependencies = @ \cup {packs[to].name}]
         /\ added' = added \cup {<<from, to>>}
         /\ last' = [NoCommand EXCEPT !.op = "add_dependency",
                                      !.args = <<from, to>>,
                                      !.message = IF \/ validate_is_err(packs')
                                                     \/ package_todo_validate(packs', todo_files,
                                                                              packs_first_mode) # {}
                                                  THEN "Warning: This creates a cycle!"
                                                  ELSE "Successfully added"]
         /\ UNCHANGED <<references, recorded, todo_files, packs_first_mode>>

\* as add_dependency, taking the edge back when the validation fails
add_dependency_rolling_back(from, to) ==
    IF ~ledgers_load(todo_files) THEN configuration_error("add_dependency", DefaultFlags) ELSE
    IF from \notin DOMAIN packs
    THEN /\ last' = [NoCommand EXCEPT !.op = "add_dependency", !.status = "error",
                                      !.args = <<from, to>>,
                                      !.message = "from not found"]
         /\ UNCHANGED <<packs, references, recorded, added, todo_files, packs_first_mode>>
    ELSE IF to \notin DOMAIN packs
    THEN /\ last' = [NoCommand EXCEPT !.op = "add_dependency", !.status = "error",
                                      !.args = <<from, to>>,
                                      !.message = "to not found"]
         /\ UNCHANGED <<packs, references, recorded, added, todo_files, packs_first_mode>>
    ELSE IF packs[to].name \in packs[from].dependencies
    THEN /\ last' = [NoCommand EXCEPT !.op = "add_dependency",
                                      !.args = <<from, to>>,
                                      !.message = "already depends"]
         /\ UNCHANGED <<packs, references, recorded, added, todo_files, packs_first_mode>>
    ELSE LET new_packs == [packs EXCEPT ![from].dependencies = @ \cup {packs[to].name}]
             is_err == \/ validate_is_err(new_packs)
                       \/ package_todo_validate(new_packs, todo_files,
                                                packs_first_mode) # {}
         IN  /\ Cardinality(added) < MaxAdded
             /\ packs' = IF is_err THEN packs ELSE new_packs
             /\ added' = IF is_err THEN added ELSE added \cup {<<from, to>>}
             /\ last' = [NoCommand EXCEPT !.op = "add_dependency",
                                          !.args = <<from, to>>,
                                          !.message = IF is_err
                                                      THEN "Warning: This creates a cycle!"
                                                      ELSE "Successfully added"]
             /\ UNCHANGED <<references, recorded, todo_files, packs_first_mode>>

add_dependency(from, to) ==
    IF ~ledgers_load(todo_files) THEN configuration_error("add_dependency", DefaultFlags) ELSE
    IF from \notin DOMAIN packs
    THEN /\ last' = [NoCommand EXCEPT !.op = "add_dependency", !.status = "error",
                                      !.args = <<from, to>>,
                                      !.message = "from not found"]
         /\ UNCHANGED <<packs, references, recorded, added, todo_files, packs_first_mode>>
    ELSE IF to \notin DOMAIN packs
    THEN /\ last' = [NoCommand EXCEPT !.op = "add_dependency", !.status = "error",
                                      !.args = <<from, to>>,
                                      !.message = "to not found"]
         /\ UNCHANGED <<packs, references, recorded, added, todo_files, packs_first_mode>>
    ELSE IF packs[to].name \in packs[from].dependencies
    THEN /\ last' = [NoCommand EXCEPT !.op = "add_dependency",
                                      !.args = <<from, to>>,
                                      !.message = "already depends"]
         /\ UNCHANGED <<packs, references, recorded, added, todo_files, packs_first_mode>>
    ELSE /\ Cardinality(added) < MaxAdded
         /\ packs' = [packs EXCEPT ![from].dependencies = @ \cup {packs[to].name}]
         /\ added' = added \cup {<<from, to>>}
         /\ last' = [NoCommand EXCEPT !.op = "add_dependency",
                                      !.args = <<from, to>>,
                                      !.message = IF \/ validate_is_err(packs')
                                                     \/ package_todo_validate(packs', todo_files,
                                                                              packs_first_mode) # {}
                                                  THEN "Warning: This creates a cycle!"
                                                  ELSE "Successfully added"]
         /\ UNCHANGED <<references, recorded, todo_files, packs_first_mode>>

(***************************************************************************)
(* check_unnecessary_dependencies (packs.rs, checker.rs)                   *)
(***************************************************************************)
\* the declared edges no reference of the referencing pack makes use of
unnecessary_dependencies(pack_set, refs) ==
    { edge \in UNION { { <<p, d>> : d \in pack_set[p].dependencies } : p \in DOMAIN pack_set } :
        ~\E r \in refs : /\ r.referencing_pack_name = edge[1]
                         /\ r.defining_pack_name = edge[2] }

\* report mode: lists the edges and fails with their number when there is one
checker_check_unnecessary_dependencies(auto_correct) ==
    LET found == unnecessary_dependencies(packs, references)
    IN  /\ last' = [NoCommand EXCEPT !.op = "check_unnecessary_dependencies",
                                     !.args = <<auto_correct>>,
                                     !.unused = found,
                                     !.count = Cardinality(found),
                                     !.status = IF found = {} THEN "ok" ELSE "error",
                                     !.message = IF found = {} THEN NoneVal
                                                 ELSE "Found unused dependencies"]
        /\ UNCHANGED <<packs, references, recorded, added, todo_files, packs_first_mode>>

\* auto-correct: rewrites the manifests without the edges and succeeds
remove_unnecessary_dependencies(auto_correct) ==
    LET found == unnecessary_dependencies(packs, references)
    IN  /\ packs' = [ p \in DOMAIN packs |->
                        [packs[p] EXCEPT !.dependencies =
                                            @ \ { edge[2] : edge \in { e \in found : e[1] = p } }] ]
        /\ last' = [NoCommand EXCEPT !.op = "check_unnecessary_dependencies",
                                     !.args = <<auto_correct>>,
                                     !.unused = found,
                                     !.count = Cardinality(found)]
        /\ UNCHANGED <<references, recorded, added, todo_files, packs_first_mode>>

\* as check_unnecessary_dependencies, with the two modes exchanged
check_unnecessary_dependencies_exchanged(auto_correct) ==
    IF ~ledgers_load(todo_files)
    THEN configuration_error("check_unnecessary_dependencies", DefaultFlags)
    ELSE IF auto_correct THEN checker_check_unnecessary_dependencies(auto_correct)
    ELSE remove_unnecessary_dependencies(auto_correct)

check_unnecessary_dependencies(auto_correct) ==
    IF ~ledgers_load(todo_files)
    THEN configuration_error("check_unnecessary_dependencies", DefaultFlags)
    ELSE IF auto_correct THEN remove_unnecessary_dependencies(auto_correct)
    ELSE checker_check_unnecessary_dependencies(auto_correct)

\* update takes the same run-wide flags; it has no use for ignore_recorded_violations
UpdateFlagChoices == { MakeFlags(D, FALSE) : D \in {{}, {"Privacy"}} }

Next ==
    \/ \E flags \in FlagChoices : check(flags, DefaultFormat)
    \/ \E flags \in UpdateFlagChoices : update(flags)

Spec == Init /\ [][Next]_vars

\* projects whose packs enforce dependencies, for the runs of add_dependency
InitDep ==
    \E scenario \in {1, 3}, foo_setting \in {"True", "Strict"},
       bar_setting \in {"False", "True"}, todo \in SUBSET TodoCandidates("Dependency") :
        /\ Cardinality(todo) <= MaxRecorded
        /\ packs = MakePackSet("focus", "Dependency", foo_setting, bar_setting,
                               scenario, "none")
        /\ references = AllReferences
        /\ recorded = todo
        /\ last = NoCommand
        /\ added = {}
        /\ packs_first_mode = FALSE
        /\ todo_files = write_violations_to_disk(todo, packs, FALSE)

DepFlagChoices == {DefaultFlags, MakeFlags({"Dependency"}, FALSE)}

NextDep ==
    \/ \E from \in AddNames, to \in AddNames : add_dependency(from, to)
    \/ \E flags \in DepFlagChoices : check(flags, DefaultFormat)

SpecDep == InitDep /\ [][NextDep]_vars

(***************************************************************************)
(* validate (packs.rs, checker/package_todo.rs)                            *)
(***************************************************************************)
\* as validate, rewriting a file that is not in the expected format
validate_fixing_format ==
    LET errors == validate_all(packs, todo_files, packs_first_mode)
    IN  /\ last' = [NoCommand EXCEPT !.op = "validate",
                                     !.after_update = /\ last.op = "update"
                                                      /\ last.status = "ok",
                                     !.status = IF errors = {} THEN "ok" ELSE "error",
                                     !.validation_errors = errors]
        /\ todo_files' =
             [ p \in DOMAIN todo_files |->
                 { IF f.kind = "yaml"
                   THEN expected_content(f, p, packs_first_mode) ELSE f :
                     f \in todo_files[p] } ]
        /\ UNCHANGED <<packs, references, recorded, added, packs_first_mode>>

\* as validate, without the validator of the dependency graph
validate_formats_only ==
    LET errors == package_todo_validate(packs, todo_files, packs_first_mode)
    IN  /\ last' = [NoCommand EXCEPT !.op = "validate",
                                     !.after_update = /\ last.op = "update"
                                                      /\ last.status = "ok",
                                     !.status = IF errors = {} THEN "ok" ELSE "error",
                                     !.validation_errors = errors]
        /\ UNCHANGED <<packs, references, recorded, added, todo_files, packs_first_mode>>

\* the validators read the manifests and the package_todo.yml files as they
\* are on disk; the run fails when an error was collected
validate ==
    LET errors == validate_all(packs, todo_files, packs_first_mode)
    IN  /\ last' = [NoCommand EXCEPT !.op = "validate",
                                     !.after_update = /\ last.op = "update"
                                                      /\ last.status = "ok",
                                     !.status = IF errors = {} THEN "ok" ELSE "error",
                                     !.validation_errors = errors]
        /\ UNCHANGED <<packs, references, recorded, added, todo_files, packs_first_mode>>

\* entries a hand-edited package_todo.yml of packs/foo may hold
TodoTextCandidates ==
    { MakeTodo("Privacy", FooFile, "::Bar", Foo, Bar),
      MakeTodo("Dependency", GoneFile, "::Bar", Foo, Bar) }

SeqsUpTo(S, n) == UNION { [1..k -> S] : k \in 0..n }

\* the header comments a file may carry: of either mode, or none
HeaderChoices(pack_name) ==
    { todo_header(pack_name, FALSE), todo_header(pack_name, TRUE), <<>> }

\* package_todo.yml of packs/foo: absent, unreadable, not a PackageTodo, or
\* entries in any order, repeated or not, under any of the headers
FooTodoFileChoices ==
    { {}, {UnreadableFile}, {UnparseableFile} }
    \cup { {MakeTodoFile("yaml", h, entries)} :
             h \in HeaderChoices(Foo), entries \in SeqsUpTo(TodoTextCandidates, MaxTodoLen) }

\* package_todo.yml of packs/bar: absent, not a PackageTodo, or one entry
\* under the header of packwerk
BarTodoFileChoices ==
    { {}, {UnparseableFile},
      {MakeTodoFile("yaml", todo_header(Bar, FALSE),
                    <<MakeTodo("Dependency", BarFile, "::Foo", Bar, Foo)>>)} }

\* projects whose package_todo.yml files were edited by hand
InitTodo ==
    \E scenario \in {1, 3, 5, 6}, first_mode \in BOOLEAN,
       foo_file \in FooTodoFileChoices, bar_file \in BarTodoFileChoices :
        /\ packs = MakePackSet("focus", "Dependency", "True", NoneVal, scenario, "none")
        /\ references = AllReferences
        /\ packs_first_mode = first_mode
        /\ todo_files = [ p \in PackNames |->
                            IF p = Foo THEN foo_file
                            ELSE IF p = Bar THEN bar_file ELSE {} ]
        /\ recorded = recorded_in(todo_files)
        /\ last = NoCommand
        /\ added = {}

\* configuration: a project root that does not exist cannot be canonicalized;
\* the command ends with that error before it reads the project
run_with_nonexistent_root(op) ==
    /\ last' = [NoCommand EXCEPT !.op = op, !.status = "error",
                                  !.message = "project root not found"]
    /\ UNCHANGED <<packs, references, recorded, added, todo_files, packs_first_mode>>

NextTodo ==
    \/ \E op \in {"check", "update"} : run_with_nonexistent_root(op)
    \/ validate
    \/ update(DefaultFlags)
    \/ check(DefaultFlags, DefaultFormat)
    \/ \E from \in {Foo, Bar}, to \in {Foo, Bar} : add_dependency(from, to)

SpecTodo == InitTodo /\ [][NextTodo]_vars

\* projects with a ledger, for the runs of check in each output format
InitOut ==
    \E focus \in {"Dependency", "Privacy"}, scenario \in {1, 2},
       foo_setting \in {NoneVal, "True", "Strict"},
       bar_setting \in {NoneVal, "True", "Strict"} :
      \E todo \in SUBSET TodoCandidates(focus) :
        /\ Cardinality(todo) <= MaxRecorded
        /\ packs = MakePackSet("focus", focus, foo_setting, bar_setting,
                               scenario, "none")
        /\ references = AllReferences
        /\ recorded = todo
        /\ last = NoCommand
        /\ added = {}
        /\ packs_first_mode = FALSE
        /\ todo_files = write_violations_to_disk(todo, packs, FALSE)

OutFlagChoices == {DefaultFlags, MakeFlags({}, TRUE)}

NextOut ==
    \/ \E flags \in OutFlagChoices, output_format \in OutputFormats :
          check(flags, output_format)
    \/ update(DefaultFlags)

SpecOut == InitOut /\ [][NextOut]_vars

\* projects with declared dependencies, for the runs of
\* check_unnecessary_dependencies
InitUnused ==
    \E scenario \in {1, 2, 3, 5, 6}, foo_setting \in {NoneVal, "True"},
       bar_setting \in {NoneVal, "True"} :
        /\ packs = MakePackSet("focus", "Dependency", foo_setting, bar_setting,
                               scenario, "none")
        /\ references = AllReferences
        /\ recorded = {}
        /\ last = NoCommand
        /\ added = {}
        /\ packs_first_mode = FALSE
        /\ todo_files = write_violations_to_disk({}, packs, FALSE)

NextUnused ==
    \/ \E auto_correct \in BOOLEAN : check_unnecessary_dependencies(auto_correct)
    \/ \E from \in PackNames, to \in PackNames : add_dependency(from, to)

SpecUnused == InitUnused /\ [][NextUnused]_vars

(***************************************************************************)
(* list_definitions (packs.rs)                                             *)
(***************************************************************************)
\* the fully-qualified names the sources define, and the files that may
\* define them
DefinedNames == {"::Foo", "::String"}
DefinitionFiles == {FooFile, OtherFooFile}

\* fully_qualified_constant_name_to_constant_definition_map: for each name the
\* list of its definitions
DefinitionMaps == [DefinedNames -> SeqsUpTo(DefinitionFiles, MaxDefinitions)]

\* one printed line per definition: the name and the file of the definition
definition_lines(name, definitions) ==
    { <<name, i, definitions[i]>> : i \in 1..Len(definitions) }

\* as list_definitions, skipping no name in ambiguous mode
list_definitions_listing_all(experimental_parser, ambiguous, constant_definition_map) ==
    IF ~experimental_parser /\ ambiguous
    THEN /\ last' = [NoCommand EXCEPT !.op = "list_definitions",
                                      !.args = <<experimental_parser, ambiguous,
                                                 constant_definition_map>>,
                                      !.status = "error",
                                      !.message = "Ambiguous mode is not supported for the Zeitwerk parser"]
         /\ UNCHANGED <<packs, references, recorded, added, todo_files, packs_first_mode>>
    ELSE /\ last' = [NoCommand EXCEPT !.op = "list_definitions",
                                      !.args = <<experimental_parser, ambiguous,
                                                 constant_definition_map>>,
                                      !.resolver = IF experimental_parser
                                                   THEN "experimental" ELSE "zeitwerk",
                                      !.lines =
                                         UNION { definition_lines(name, constant_definition_map[name]) :
                                                   name \in DOMAIN constant_definition_map }]
         /\ UNCHANGED <<packs, references, recorded, added, todo_files, packs_first_mode>>

list_definitions(experimental_parser, ambiguous, constant_definition_map) ==
    IF ~experimental_parser /\ ambiguous
    THEN /\ last' = [NoCommand EXCEPT !.op = "list_definitions",
                                      !.args = <<experimental_parser, ambiguous,
                                                 constant_definition_map>>,
                                      !.status = "error",
                                      !.message = "Ambiguous mode is not supported for the Zeitwerk parser"]
         /\ UNCHANGED <<packs, references, recorded, added, todo_files, packs_first_mode>>
    ELSE /\ last' = [NoCommand EXCEPT !.op = "list_definitions",
                                      !.args = <<experimental_parser, ambiguous,
                                                 constant_definition_map>>,
                                      !.resolver = IF experimental_parser
                                                   THEN "experimental" ELSE "zeitwerk",
                                      !.lines =
                                         UNION { definition_lines(name, constant_definition_map[name]) :
                                                   name \in { n \in DOMAIN constant_definition_map :
                                                                ~(ambiguous /\ Len(constant_definition_map[n]) = 1) } }]
         /\ UNCHANGED <<packs, references, recorded, added, todo_files, packs_first_mode>>

InitList ==
    /\ packs = MakePackSet("focus", "Dependency", "True", NoneVal, 1, "none")
    /\ references = AllReferences
    /\ recorded = {}
    /\ last = NoCommand
    /\ added = {}
    /\ packs_first_mode = FALSE
    /\ todo_files = write_violations_to_disk({}, packs, FALSE)

NextList ==
    \E experimental_parser \in BOOLEAN, ambiguous \in BOOLEAN,
       constant_definition_map \in DefinitionMaps :
        list_definitions(experimental_parser, ambiguous, constant_definition_map)

SpecList == InitList /\ [][NextList]_vars

(***************************************************************************)
(* A check as its parallel workers run it: every raw reference is          *)
(* converted on its own (reference_extractor.rs), the results are          *)
(* collected, every reference is checked on its own (checker.rs), and the  *)
(* result is built from the collected violations                           *)
(***************************************************************************)
\* a reference as the parser returns it: the pack names are extra fields,
\* present when the file belongs to a pack
RawReference(r) ==
    [ constant_name             |-> r.constant_name,
      relative_defining_file    |-> r.relative_defining_file,
      relative_referencing_file |-> r.relative_referencing_file,
      source_location           |-> [line |-> r.source_location[1],
                                     column |-> r.source_location[2]],
      extra_fields              |->
          (IF r.referencing_pack_name = NoneVal THEN {}
           ELSE {<<"referencing_pack_name", r.referencing_pack_name>>})
          \cup (IF r.defining_pack_name = NoneVal THEN {}
                ELSE {<<"defining_pack_name", r.defining_pack_name>>}) ]

\* a reference from a file that no pack owns
OutsideToBar == MakeReference("::Bar", Bar, BarFile, NoneVal, "lib/outside.rb", 1, 1)

RawReferences == { RawReference(r) : r \in references \cup {OutsideToBar} }

\* extra_fields.get(key): the values under the key, none or one
extra_field(raw, key) == { kv[2] : kv \in { x \in raw.extra_fields : x[1] = key } }

\* the closure of filter_map: nothing without a referencing pack, else the Reference
to_pks_reference(raw) ==
    IF extra_field(raw, "referencing_pack_name") = {} THEN {}
    ELSE { MakeReference(raw.constant_name,
                         IF extra_field(raw, "defining_pack_name") = {} THEN NoneVal
                         ELSE CHOOSE v \in extra_field(raw, "defining_pack_name") : TRUE,
                         raw.relative_defining_file,
                         CHOOSE v \in extra_field(raw, "referencing_pack_name") : TRUE,
                         raw.relative_referencing_file,
                         raw.source_location.line,
                         raw.source_location.column) }

start_check(flags) ==
    /\ last.op \notin {"extracting", "checking"}
    /\ last' = [NoCommand EXCEPT !.op = "extracting", !.flags = flags,
                                 !.pending_raw = RawReferences]
    /\ UNCHANGED <<packs, references, recorded, added, todo_files, packs_first_mode>>

\* as extract_reference, keeping only the reference converted last
extract_reference_replacing(raw) ==
    /\ last.op = "extracting"
    /\ raw \in last.pending_raw
    /\ last' = [last EXCEPT !.pending_raw = @ \ {raw},
                            !.extracted = to_pks_reference(raw)]
    /\ UNCHANGED <<packs, references, recorded, added, todo_files, packs_first_mode>>

\* a worker converts one raw reference, whichever it is handed
extract_reference(raw) ==
    /\ last.op = "extracting"
    /\ raw \in last.pending_raw
    /\ last' = [last EXCEPT !.pending_raw = @ \ {raw},
                            !.extracted = @ \cup to_pks_reference(raw)]
    /\ UNCHANGED <<packs, references, recorded, added, todo_files, packs_first_mode>>

\* collect: every raw reference was converted, the checking starts
collect_references ==
    /\ last.op = "extracting"
    /\ last.pending_raw = {}
    /\ last' = [last EXCEPT !.op = "checking", !.pending_check = last.extracted]
    /\ UNCHANGED <<packs, references, recorded, added, todo_files, packs_first_mode>>

\* a worker runs the checkers on one reference, whichever it is handed
check_reference(r) ==
    /\ last.op = "checking"
    /\ r \in last.pending_check
    /\ last' = [last EXCEPT !.pending_check = @ \ {r},
                            !.found_violations =
                               @ \cup UNION { checker_check(t, r, get_configuration(last.flags)) :
                                                t \in CheckerTypes }]
    /\ UNCHANGED <<packs, references, recorded, added, todo_files, packs_first_mode>>

\* every reference was checked: the result is built and the run ends
finish_check ==
    /\ last.op = "checking"
    /\ last.pending_check = {}
    /\ LET configuration == get_configuration(last.flags)
           found == last.found_violations
           result == [ found_violations       |-> found,
                       reportable_violations  |-> build_reportable_violations(found, configuration),
                       stale_violations       |-> build_stale_violations(found, configuration),
                       strict_mode_violations |-> build_strict_mode_violations(found) ]
       IN  last' = [last EXCEPT !.op = "check",
                                !.reportable_violations = result.reportable_violations,
                                !.stale_violations = result.stale_violations,
                                !.strict_mode_violations = result.strict_mode_violations,
                                !.status = IF has_violations(result)
                                           THEN "ViolationsFound" ELSE "ok"]
    /\ UNCHANGED <<packs, references, recorded, added, todo_files, packs_first_mode>>

InitPar ==
    \E focus \in {"Dependency", "Privacy"}, scenario \in {1, 2},
       foo_setting \in {"True", "Strict"}, bar_setting \in {NoneVal, "True", "Strict"} :
      \E todo \in SUBSET TodoCandidates(focus) :
        /\ Cardinality(todo) <= MaxRecorded
        /\ packs = MakePackSet("focus", focus, foo_setting, bar_setting,
                               scenario, "none")
        /\ references = AllReferences
        /\ recorded = todo
        /\ last = NoCommand
        /\ added = {}
        /\ packs_first_mode = FALSE
        /\ todo_files = write_violations_to_disk(todo, packs, FALSE)

NextPar ==
    \/ \E flags \in OutFlagChoices : start_check(flags)
    \/ \E raw \in RawReferences : extract_reference(raw)
    \/ collect_references
    \/ \E r \in references : check_reference(r)
    \/ finish_check

SpecPar == InitPar /\ [][NextPar]_vars

(***************************************************************************)
(* The order of the rows a check writes (text.rs, csv.rs, json.rs): the    *)
(* result sets are hash sets, iterated in an order that is not fixed       *)
(***************************************************************************)
\* packs/foo/app/services/other_foo.rb:9:1 references ::Bar of packs/bar
OtherFooToBar == MakeReference("::Bar", Bar, BarFile, Foo, OtherFooFile, 9, 1)

\* what the message of a violation is expanded from, as its rank among the
\* messages ordered as strings; the location is not part of it, it is
\* prepended when the row is written
violation_message(v) ==
    LET pack_order == <<RootPack, Bar, Foo>>
    IN  Position(ViolationTypeOrder, v.identifier.violation_type) * 1000
        + Position(ConstantOrder, v.identifier.constant_name) * 100
        + Position(pack_order, v.identifier.defining_pack_name) * 10
        + Position(pack_order, v.identifier.referencing_pack_name)

\* the orders in which iterating a hash set may yield its elements
iteration_orders(set) ==
    { order \in [1..Cardinality(set) -> set] :
        \A i, j \in 1..Cardinality(set) : i # j => order[i] # order[j] }

\* sort_by on the messages: a stable sort, elements with equal messages
\* keep the order of the iteration
sorted_by_message(order) ==
    \A i, j \in 1..Len(order) :
        i < j => violation_message(order[i]) <= violation_message(order[j])

rows_of(order) == [ i \in 1..Len(order) |-> order[i].identifier ]

text_rows(result) ==
    { rows_of(reportable) \o rows_of(strict) :
        reportable \in { order \in iteration_orders(result.reportable_violations) :
                           sorted_by_message(order) },
        strict \in iteration_orders(result.strict_mode_violations) }

\* chain!(reportable, strict), as csv.rs and json.rs iterate it
chained_rows(result) ==
    { rows_of(reportable) \o rows_of(strict) :
        reportable \in iteration_orders(result.reportable_violations),
        strict \in iteration_orders(result.strict_mode_violations) }

\* check, with the rows in the order the writer put them out
check_writing_rows(flags, output_format) ==
    IF ~ledgers_load(todo_files) THEN configuration_error("check", flags) ELSE
    LET result == check_all(get_configuration(flags))
    IN  \E rows \in IF output_format = "packwerk" THEN text_rows(result)
                    ELSE chained_rows(result) :
          /\ last' = [NoCommand EXCEPT
                         !.op = "check",
                         !.flags = flags,
                         !.after_update = /\ last.op = "update"
                                          /\ same_disabled(last.flags, flags),
                         !.found_violations = result.found_violations,
                         !.reportable_violations = result.reportable_violations,
                         !.stale_violations = result.stale_violations,
                         !.strict_mode_violations = result.strict_mode_violations,
                         !.status = IF has_violations(result)
                                    THEN "ViolationsFound" ELSE "ok",
                         !.output_format = output_format,
                         !.output = {write_output(output_format, result)},
                         !.rendered = rows]
          /\ UNCHANGED <<packs, references, recorded, added, todo_files, packs_first_mode>>

InitRows ==
    \E focus \in {"Dependency", "Privacy"}, scenario \in {1, 2},
       foo_setting \in {"True", "Strict"}, bar_setting \in {NoneVal, "True", "Strict"} :
      \E todo \in SUBSET TodoCandidates(focus) :
        /\ Cardinality(todo) <= MaxRecorded
        /\ packs = MakePackSet("focus", focus, foo_setting, bar_setting,
                               scenario, "none")
        /\ references = AllReferences \cup {OtherFooToBar}
        /\ recorded = todo
        /\ last = NoCommand
        /\ added = {}
        /\ packs_first_mode = FALSE
        /\ todo_files = write_violations_to_disk(todo, packs, FALSE)

NextRows ==
    \/ \E flags \in OutFlagChoices, output_format \in OutputFormats :
         check_writing_rows(flags, output_format)
    \/ update(DefaultFlags)

SpecRows == InitRows /\ [][NextRows]_vars

(***************************************************************************)
(* walk_directory (walk_directory.rs): one walk of the project directory   *)
(* collects the included files, the packs and the manifest owning each file*)
(***************************************************************************)
RootDir == "."

parent(dir) ==
    CASE dir = "packs" -> RootDir
      [] dir = "packs/foo" -> "packs"
      [] dir = "packs/foo/app" -> "packs/foo"
      [] dir = "lib" -> RootDir
      [] dir = "lib/tools" -> "lib"

\* absolute_dirname.join("package.yml"); a path is the directory of the
\* entry and its file name
package_yml_of(dir) == <<dir, "package.yml">>

\* the files the include globs match
RubyFiles ==
    { <<RootDir, "init.rb">>, <<"packs/foo", "foo.rb">>,
      <<"packs/foo/app", "service.rb">>, <<"lib", "task.rb">>,
      <<"lib/tools", "tool.rb">> }

\* the directories that hold a package.yml: the root and any of the others
ManifestDirChoices ==
    { {RootDir} \cup dirs : dirs \in SUBSET {"packs/foo", "packs/foo/app", "lib", "lib/tools"} }

\* package_paths, by the directories its globs match: every directory,
\* or the directories under packs
PackagePathChoices ==
    { {RootDir, "packs", "packs/foo", "packs/foo/app", "lib", "lib/tools"},
      {"packs/foo"}, {"packs/foo", "packs/foo/app"} }

\* what the gitignore files match: directories and files
IgnoredChoices == SUBSET {<<"lib", "lib/tools">>, package_yml_of("packs/foo")}

RECURSIVE is_read(_, _)
\* the walk reads a directory unless it or a directory above it was pruned
is_read(dir, ignored) ==
    \/ dir = RootDir
    \/ /\ <<parent(dir), dir>> \notin ignored
       /\ is_read(parent(dir), ignored)

RECURSIVE current_package_yml(_, _)
\* process_read_dir: the state handed down from the parent, replaced when
\* the directory holds a package.yml of its own; the walk starts with
\* PathBuf::from("package.yml"), a path that is not under the absolute root
current_package_yml(dir, manifest_dirs) ==
    IF dir \in manifest_dirs THEN package_yml_of(dir)
    ELSE IF dir = RootDir THEN <<NoneVal, "package.yml">>
    ELSE current_package_yml(parent(dir), manifest_dirs)

walk_directory(manifest_dirs, package_paths, ignored) ==
    LET \* the entries the walk yields that are files and are not ignored
        files == { f \in RubyFiles \cup { package_yml_of(d) : d \in manifest_dirs } :
                     is_read(f[1], ignored) /\ f \notin ignored }
        included == files \cap RubyFiles
    IN  /\ last' = [NoCommand EXCEPT
                       !.op = "walk_directory",
                       !.walked = <<manifest_dirs, package_paths, ignored>>,
                       !.included_files = included,
                       !.included_packs =
                          { f[1] : f \in { g \in files :
                              /\ g = current_package_yml(g[1], manifest_dirs)
                              /\ g[1] \in package_paths \/ g[1] = RootDir } },
                       !.owning_package_yml_for_file =
                          [ f \in included |-> current_package_yml(f[1], manifest_dirs) ]]
        /\ UNCHANGED <<packs, references, recorded, added, todo_files, packs_first_mode>>

InitWalk ==
    /\ packs = MakePackSet("focus", "Dependency", "True", NoneVal, 1, "none")
    /\ references = AllReferences
    /\ recorded = {}
    /\ last = NoCommand
    /\ added = {}
    /\ packs_first_mode = FALSE
    /\ todo_files = write_violations_to_disk({}, packs, FALSE)

NextWalk ==
    \E manifest_dirs \in ManifestDirChoices, package_paths \in PackagePathChoices,
       ignored \in IgnoredChoices :
      walk_directory(manifest_dirs, package_paths, ignored)

SpecWalk == InitWalk /\ [][NextWalk]_vars

(***************************************************************************)
(* PackChecker::checkable as a call that returns or aborts                 *)
(* (checker/pack_checker.rs)                                               *)
(***************************************************************************)
\* the reference of the tests of pack_checker.rs: the defining pack is
\* resolved, the defining file is None
FooToBarWithoutFile == MakeReference("::Bar", Bar, NoneVal, Foo, FooFile, 3, 4)

\* is_ignored takes relative_defining_file.as_ref().unwrap() for the
\* outgoing checks: a None there aborts the call
is_ignored_unwrap_panics(checker_type, reference) ==
    /\ violation_direction(checker_type) = "Outgoing"
    /\ reference.relative_defining_file = NoneVal

\* what a call of checkable comes to: Ok(true), Ok(false), or a panic
checkable_call(checker_type, reference, configuration) ==
    IF reference.defining_pack_name = NoneVal THEN "Ok(false)"
    ELSE IF reference.defining_pack_name = reference.referencing_pack_name THEN "Ok(false)"
    ELSE IF is_false(rules_checker_setting(checker_type, reference, configuration)) THEN "Ok(false)"
    ELSE IF violation_globally_disabled(checker_type, configuration) THEN "Ok(false)"
    ELSE IF is_ignored_unwrap_panics(checker_type, reference) THEN "panic"
    ELSE IF is_ignored(checker_type, reference, configuration) THEN "Ok(false)"
    ELSE "Ok(true)"

\* PackChecker::new(configuration, checker_type, reference)?.checkable()
evaluate_checkable(flags, checker_type, reference) ==
    /\ last' = [NoCommand EXCEPT
                   !.op = "checkable",
                   !.flags = flags,
                   !.args = <<checker_type, reference>>,
                   !.status = checkable_call(checker_type, reference,
                                             get_configuration(flags))]
    /\ UNCHANGED <<packs, references, recorded, added, todo_files, packs_first_mode>>

InitEval ==
    \E focus \in {"Dependency", "Layer", "Privacy"}, scenario \in {1, 2},
       foo_setting \in {NoneVal, "False", "True", "Strict"},
       bar_setting \in {NoneVal, "True"},
       ignore \in {"none", "foo_ignores_bar"} :
        /\ packs = MakePackSet("focus", focus, foo_setting, bar_setting,
                               scenario, ignore)
        /\ references = AllReferences \cup {FooToBarWithoutFile}
        /\ recorded = {}
        /\ last = NoCommand
        /\ added = {}
        /\ packs_first_mode = FALSE
        /\ todo_files = write_violations_to_disk({}, packs, FALSE)

NextEval ==
    \E flags \in {DefaultFlags, MakeFlags({"Dependency"}, FALSE)},
       checker_type \in CheckerTypes, reference \in references :
      evaluate_checkable(flags, checker_type, reference)

SpecEval == InitEval /\ [][NextEval]_vars

(***************************************************************************)
(* Vocabulary of the properties, written from the manifests and the        *)
(* references rather than from the checker's own operators                 *)
(***************************************************************************)
\* the project and flags the last check ran on
CheckedConfiguration == get_configuration(last.flags)

Surfaced == last.reportable_violations \cup last.strict_mode_violations

Resolved(r) == r.defining_pack_name # NoneVal

CrossPack(r) == Resolved(r) /\ r.defining_pack_name # r.referencing_pack_name

RuleOwner(t, r) ==
    IF t \in {"Dependency", "Layer"} THEN r.referencing_pack_name
    ELSE r.defining_pack_name

OtherPack(t, r) ==
    IF t \in {"Dependency", "Layer"} THEN r.defining_pack_name
    ELSE r.referencing_pack_name

RelevantFile(t, r) ==
    IF t \in {"Dependency", "Layer"} THEN r.relative_defining_file
    ELSE r.relative_referencing_file

\* the enforcement key of the manifest, as written (NoneVal when absent)
ManifestSetting(pack, t) ==
    CASE t = "Dependency" -> pack.enforce_dependencies
      [] t = "Privacy" -> pack.enforce_privacy
      [] t = "FolderPrivacy" -> pack.enforce_folder_privacy
      [] t = "Visibility" -> pack.enforce_visibility
      [] t = "Layer" -> pack.enforce_layers

DisabledTypes(flags) ==
    { t \in CheckerTypes :
        \/ t = "Dependency" /\ flags.disable_enforce_dependencies
        \/ t = "Privacy" /\ flags.disable_enforce_privacy
        \/ t = "FolderPrivacy" /\ flags.disable_enforce_folder_privacy
        \/ t = "Visibility" /\ flags.disable_enforce_visibility
        \/ t = "Layer" /\ flags.disable_enforce_layers }

\* the violation of type t that reference r causes is among vs
ViolationOf(t, r, vs) ==
    \E v \in vs :
        /\ v.identifier.violation_type = t
        /\ v.identifier.file = r.relative_referencing_file
        /\ v.identifier.constant_name = r.constant_name
        /\ v.source_location = r.source_location

\* the violations of vs that reference r causes for type t
ViolationsOf(t, r, vs) ==
    { v \in vs :
        /\ v.identifier.violation_type = t
        /\ v.identifier.file = r.relative_referencing_file
        /\ v.identifier.constant_name = r.constant_name
        /\ v.source_location = r.source_location }

\* the identifier the ledger uses for the violation of type t by reference r
TodoOf(t, r) ==
    MakeTodo(t, r.relative_referencing_file, r.constant_name,
             r.referencing_pack_name, r.defining_pack_name)

(***************************************************************************)
(* C1                                                                      *)
(***************************************************************************)
\* C1: a reference whose referencing pack is its defining pack causes no
\* violation of any of the five checker types, whatever the settings and flags
C1_SelfReferenceNeverViolates ==
    last.op = "check" =>
        \A r \in references :
            (Resolved(r) /\ r.defining_pack_name = r.referencing_pack_name) =>
                \A t \in CheckerTypes :
                    ~ViolationOf(t, r, last.found_violations \cup Surfaced)

\* a check ran on a project whose pack with a self-reference enforces a
\* checker strictly, and it found violations of other references
C1_Witness ==
    /\ last.op = "check"
    /\ last.found_violations # {}
    /\ \E r \in references, t \in CheckerTypes :
          /\ Resolved(r) /\ r.defining_pack_name = r.referencing_pack_name
          /\ ManifestSetting(packs[r.referencing_pack_name], t) = "Strict"
          /\ t \notin DisabledTypes(last.flags)

(***************************************************************************)
(* C2                                                                      *)
(***************************************************************************)
\* the five gate conditions of a checker type for a reference
GateConditions(t, r, flags) ==
    /\ Resolved(r)
    /\ r.defining_pack_name # r.referencing_pack_name
    /\ ManifestSetting(packs[RuleOwner(t, r)], t) \notin {NoneVal, "False"}
    /\ t \notin DisabledTypes(flags)
    /\ ~\E rule \in packs[RuleOwner(t, r)].enforcement_globs_ignore :
           t \in rule.enforcements /\ GlobMatches(rule.ignores, RelevantFile(t, r))

\* C2: checkable is true exactly when the defining pack is resolved, the two
\* packs differ, the rule owner's setting is not disabled (absent counts as
\* disabled), the type is not globally disabled and the rule owner's ignore
\* rules do not match the relevant file; when a condition fails the check
\* produces no violation of that type for the reference
C2_CheckableIffAllGates ==
    last.op = "check" =>
        \A t \in CheckerTypes, r \in references :
            /\ checkable(t, r, CheckedConfiguration) <=> GateConditions(t, r, last.flags)
            /\ ~GateConditions(t, r, last.flags) =>
                   ~ViolationOf(t, r, last.found_violations \cup Surfaced)

\* a check found a violation of one reference while another reference of an
\* enforced, not globally disabled type was held back by an ignore rule alone
C2_Witness ==
    /\ last.op = "check"
    /\ \E t \in CheckerTypes, r \in references :
          GateConditions(t, r, last.flags) /\ ViolationOf(t, r, last.found_violations)
    /\ \E t \in CheckerTypes, r \in references :
          /\ CrossPack(r)
          /\ ManifestSetting(packs[RuleOwner(t, r)], t) \in {"True", "Strict"}
          /\ t \notin DisabledTypes(last.flags)
          /\ ~GateConditions(t, r, last.flags)
          /\ ~ViolationOf(t, r, last.found_violations)

(***************************************************************************)
(* C3                                                                      *)
(***************************************************************************)
\* the configuration with every enforcement setting of one pack and its
\* ignore rules replaced
WithPackSettings(configuration, pack_name, setting, rules) ==
    LET pack == configuration.pack_set[pack_name]
        changed ==
            [ pack EXCEPT
                !.enforce_dependencies     = setting,
                !.enforce_privacy          = setting,
                !.enforce_folder_privacy   = setting,
                !.enforce_visibility       = setting,
                !.enforce_layers           = setting,
                !.enforcement_globs_ignore = rules ]
    IN  [ configuration EXCEPT !.pack_set = [ @ EXCEPT ![pack_name] = changed ] ]

IgnoreRuleChoices ==
    { {}, {[enforcements |-> CheckerTypes, ignores |-> FooGlob]},
          {[enforcements |-> CheckerTypes, ignores |-> BarGlob]} }

\* C3: Dependency and Layer take their setting, strictness and ignore rules
\* from the referencing pack and match the defining file; Privacy,
\* FolderPrivacy and Visibility take them from the defining pack and match
\* the referencing file; whatever enforcement settings and ignore rules the
\* other pack has, the check of the reference gives the same result
C3_RuleOwnerDecides ==
    last.op = "check" =>
        \A t \in CheckerTypes, r \in { x \in references : CrossPack(x) } :
            /\ rules_pack(t, r, CheckedConfiguration).name = RuleOwner(t, r)
            /\ \A glob \in {FooGlob, BarGlob} :
                   is_ignored(t, r,
                       WithPackSettings(CheckedConfiguration, RuleOwner(t, r), "True",
                                        {[enforcements |-> {t}, ignores |-> glob]}))
                     <=> GlobMatches(glob, RelevantFile(t, r))
            /\ \A setting \in Settings, rules \in IgnoreRuleChoices :
                   checker_check(t, r,
                       WithPackSettings(CheckedConfiguration, OtherPack(t, r),
                                        setting, rules))
                     = checker_check(t, r, CheckedConfiguration)
            /\ ViolationsOf(t, r, last.found_violations)
                   = checker_check(t, r, CheckedConfiguration)
            /\ \A v \in ViolationsOf(t, r, last.found_violations) :
                   v.identifier.strict
                     <=> ManifestSetting(packs[RuleOwner(t, r)], t) = "Strict"

\* a check reported a non-strict violation although the other pack of the
\* reference enforces the same checker type strictly
C3_Witness ==
    /\ last.op = "check"
    /\ \E t \in CheckerTypes, r \in references :
          /\ CrossPack(r)
          /\ ManifestSetting(packs[RuleOwner(t, r)], t) = "True"
          /\ ManifestSetting(packs[OtherPack(t, r)], t) = "Strict"
          /\ \E v \in last.reportable_violations :
                v.identifier = TodoOf(t, r)
(***************************************************************************)
(* C4                                                                      *)
(***************************************************************************)
\* C4: a violation is marked strict exactly when the rule owner's setting
\* for its type is strict; the strict violations are the content of
\* strict_mode_violations, none of them is reportable, and an entry of the
\* ledger for the same reference does not hold a strict violation back
C4_StrictAlwaysSurfaced ==
    last.op = "check" =>
        /\ \A t \in CheckerTypes, r \in references :
               \A v \in ViolationsOf(t, r, last.found_violations) :
                   /\ CrossPack(r)
                   /\ v.identifier.strict
                        <=> ManifestSetting(packs[RuleOwner(t, r)], t) = "Strict"
                   /\ v.identifier.strict =>
                        /\ v \in last.strict_mode_violations
                        /\ v \notin last.reportable_violations
        /\ \A v \in last.strict_mode_violations :
               v \in last.found_violations /\ v.identifier.strict
        /\ \A v \in last.reportable_violations : ~v.identifier.strict

\* a check surfaced a strict violation of a reference for which the ledger
\* holds an entry
C4_Witness ==
    /\ last.op = "check"
    /\ ~last.flags.ignore_recorded_violations
    /\ \E t \in CheckerTypes, r \in references :
          /\ TodoOf(t, r) \in recorded
          /\ ManifestSetting(packs[RuleOwner(t, r)], t) = "Strict"
          /\ ViolationsOf(t, r, last.strict_mode_violations) # {}

(***************************************************************************)
(* C5                                                                      *)
(***************************************************************************)
\* the references that break the rule of type t of the checked project,
\* read from the manifests
BreaksRule(t, r) ==
    LET ref_pack == packs[r.referencing_pack_name]
        def_pack == packs[r.defining_pack_name]
    IN  CASE t = "Dependency" -> def_pack.name \notin ref_pack.dependencies
          [] t = "Privacy" -> r.relative_defining_file \notin def_pack.public_files
          [] t = "FolderPrivacy" -> r.relative_defining_file \notin def_pack.public_folder_files
          [] t = "Visibility" -> ref_pack.name \notin def_pack.visible_to
          [] t = "Layer" ->
               /\ ref_pack.layer = "utilities"
               /\ def_pack.layer = "product"
               /\ def_pack.name \notin ref_pack.layer_exceptions

\* the pairs of checker type and reference that are checkable violations
CurrentViolations(flags) ==
    { tr \in CheckerTypes \X references :
        GateConditions(tr[1], tr[2], flags) /\ BreaksRule(tr[1], tr[2]) }

\* C5: the reportable violations are exactly the checkable non-strict
\* violations without an entry in the ledger, and with the flag that ignores
\* the recorded violations every checkable non-strict violation
C5_ReportableIsUnrecordedNonStrict ==
    last.op = "check" =>
        /\ { v.identifier : v \in last.reportable_violations }
             = { TodoOf(tr[1], tr[2]) :
                   tr \in { x \in CurrentViolations(last.flags) :
                              /\ ManifestSetting(packs[RuleOwner(x[1], x[2])], x[1]) # "Strict"
                              /\ \/ last.flags.ignore_recorded_violations
                                 \/ TodoOf(x[1], x[2]) \notin recorded } }
        /\ last.reportable_violations \subseteq last.found_violations

\* one check held a recorded violation back and reported an unrecorded one
C5_Witness ==
    /\ last.op = "check"
    /\ ~last.flags.ignore_recorded_violations
    /\ \E tr \in CurrentViolations(last.flags) :
          /\ TodoOf(tr[1], tr[2]) \in recorded
          /\ ViolationsOf(tr[1], tr[2], last.reportable_violations) = {}
    /\ last.reportable_violations # {}

(***************************************************************************)
(* C6                                                                      *)
(***************************************************************************)
\* C6: a checkable Dependency reference is a violation exactly when the
\* defining pack is not among the dependencies the referencing pack declares;
\* once add_dependency has written the edge from A to B, a check reports no
\* Dependency violation from A to B
C6_DependencyIffUndeclared ==
    last.op = "check" =>
        /\ \A r \in references :
               GateConditions("Dependency", r, last.flags) =>
                   ( ViolationOf("Dependency", r, last.found_violations)
                       <=> r.defining_pack_name
                             \notin packs[r.referencing_pack_name].dependencies )
        /\ \A edge \in added :
               ~\E v \in last.found_violations \cup Surfaced :
                   /\ v.identifier.violation_type = "Dependency"
                   /\ v.identifier.referencing_pack_name = edge[1]
                   /\ v.identifier.defining_pack_name = edge[2]

\* packs/foo enforces dependencies and referenced packs/bar without declaring
\* it; after add_dependency wrote that edge a check found the Dependency
\* violation of packs/bar on packs/foo and none of packs/foo on packs/bar
C6_Witness ==
    /\ last.op = "check"
    /\ <<Foo, Bar>> \in added
    /\ GateConditions("Dependency", FooToBar, last.flags)
    /\ ~ViolationOf("Dependency", FooToBar, last.found_violations)
    /\ GateConditions("Dependency", BarToFoo, last.flags)
    /\ ViolationOf("Dependency", BarToFoo, last.found_violations)
(***************************************************************************)
(* C7                                                                      *)
(***************************************************************************)
\* the defining pack sits strictly higher in the layer order than the
\* referencing pack
DefinedStrictlyHigher(r) ==
    \E i \in 1..Len(LayerOrder), j \in 1..Len(LayerOrder) :
        /\ packs[r.defining_pack_name].layer = LayerOrder[i]
        /\ packs[r.referencing_pack_name].layer = LayerOrder[j]
        /\ i < j

\* C7: a checkable Layer reference is a violation exactly when the defining
\* pack's layer is strictly higher than the referencing pack's and no
\* exception is declared; a Layer violation carries the two layer names and
\* a violation of another type carries none
C7_LayerIffStrictlyHigher ==
    last.op = "check" =>
        /\ \A r \in references :
               GateConditions("Layer", r, last.flags) =>
                   ( ViolationOf("Layer", r, last.found_violations)
                       <=> /\ DefinedStrictlyHigher(r)
                           /\ r.defining_pack_name
                                \notin packs[r.referencing_pack_name].layer_exceptions )
        /\ \A v \in last.found_violations \cup Surfaced :
               IF v.identifier.violation_type = "Layer"
               THEN /\ v.defining_layer = packs[v.identifier.defining_pack_name].layer
                    /\ v.referencing_layer = packs[v.identifier.referencing_pack_name].layer
                    /\ v.defining_layer # NoneVal
                    /\ v.referencing_layer # NoneVal
               ELSE /\ v.defining_layer = NoneVal
                    /\ v.referencing_layer = NoneVal

\* a check found the Layer violation of packs/foo on the higher packs/bar
\* next to a violation of another type, and none for the checkable reference
\* of packs/bar to the lower packs/foo
C7_Witness ==
    /\ last.op = "check"
    /\ ViolationOf("Layer", FooToBar, Surfaced)
    /\ GateConditions("Layer", BarToFoo, last.flags)
    /\ packs[Foo].layer # NoneVal
    /\ ~ViolationOf("Layer", BarToFoo, last.found_violations)
    /\ \E v \in Surfaced : v.identifier.violation_type # "Layer"

(***************************************************************************)
(* C8                                                                      *)
(***************************************************************************)
\* the flags of the last check with no checker type disabled
WithoutDisabling(flags) == MakeFlags({}, flags.ignore_recorded_violations)

NotOfType(vs, types) == { v \in vs : v.identifier.violation_type \notin types }

\* C8: the violations of a check with a checker type globally disabled are
\* those of the same check without the flag, less the violations of that type
C8_DisablingRemovesExactlyThatType ==
    last.op = "check" =>
        LET full == check_all(get_configuration(WithoutDisabling(last.flags)))
            off  == DisabledTypes(last.flags)
        IN  /\ last.found_violations = NotOfType(full.found_violations, off)
            /\ last.reportable_violations = NotOfType(full.reportable_violations, off)
            /\ last.strict_mode_violations = NotOfType(full.strict_mode_violations, off)

\* a check with one checker type disabled dropped a violation of that type
\* and kept a violation of another type
C8_Witness ==
    /\ last.op = "check"
    /\ DisabledTypes(last.flags) # {}
    /\ \E v \in check_all(get_configuration(WithoutDisabling(last.flags))).reportable_violations :
          v.identifier.violation_type \in DisabledTypes(last.flags)
    /\ last.reportable_violations # {}

(***************************************************************************)
(* C9                                                                      *)
(***************************************************************************)
\* the identifiers of the current violations: strict ones carry the strict
\* mark, which no entry of a ledger carries
CurrentIdentifiers(flags) ==
    { [ TodoOf(tr[1], tr[2]) EXCEPT
          !.strict = (ManifestSetting(packs[RuleOwner(tr[1], tr[2])], tr[1]) = "Strict") ] :
        tr \in CurrentViolations(flags) }

\* C9: the stale set holds exactly the entries of the ledger without a
\* current violation of the same identifier, among them the entries of files
\* that no longer exist; no reportable violation is stale
C9_StaleIsUnmatchedLedger ==
    last.op = "check" =>
        /\ last.stale_violations = recorded \ CurrentIdentifiers(last.flags)
        /\ \A e \in recorded : e.file = GoneFile => e \in last.stale_violations
        /\ \A v \in last.reportable_violations : v.identifier \notin last.stale_violations

\* a check reported the entry of a deleted file as stale next to a
\* reportable violation
C9_Witness ==
    /\ last.op = "check"
    /\ \E e \in last.stale_violations : e.file = GoneFile
    /\ last.reportable_violations # {}

(***************************************************************************)
(* C10                                                                     *)
(***************************************************************************)
\* C10: a check that follows update directly, with the same flags, has no
\* reportable violation and no stale entry
C10_UpdateThenCheckIsClean ==
    (last.op = "check" /\ last.after_update /\ ~last.flags.ignore_recorded_violations) =>
        /\ last.reportable_violations = {}
        /\ last.stale_violations = {}

\* update wrote a ledger of the current non-strict violations and the check
\* after it found them and reported none
C10_Witness ==
    /\ last.op = "check"
    /\ last.after_update
    /\ ~last.flags.ignore_recorded_violations
    /\ \E v \in last.found_violations : ~v.identifier.strict
    /\ last.reportable_violations = {}
    /\ last.stale_violations = {}
(***************************************************************************)
(* C11                                                                     *)
(***************************************************************************)
\* the entries of the current non-strict violations
CurrentNonStrictEntries(flags) ==
    { e \in CurrentIdentifiers(flags) : ~e.strict }

\* C11: update leaves in the ledgers exactly the current non-strict
\* violations: each of them is recorded, each entry recorded before without
\* a current violation is gone, and no strict violation is written
C11_UpdateWritesCurrentNonStrict ==
    [][ last'.op = "update" =>
          /\ recorded' = CurrentNonStrictEntries(last'.flags)
          /\ \A e \in recorded \ CurrentIdentifiers(last'.flags) : e \notin recorded'
          /\ \A e \in CurrentIdentifiers(last'.flags) : e.strict => e \notin recorded'
          /\ \A e \in recorded' : ~e.strict ]_vars

\* update wrote a ledger while a strict violation was current, and the
\* ledger holds the non-strict violations only
C11_Witness ==
    /\ last.op = "update"
    /\ recorded # {}
    /\ \E e \in CurrentIdentifiers(last.flags) : e.strict
    /\ recorded = CurrentNonStrictEntries(last.flags)
(***************************************************************************)
(* C12                                                                     *)
(***************************************************************************)
\* the last command was a check that found stale entries and nothing else
StaleOnly ==
    /\ last.op = "check"
    /\ last.stale_violations # {}
    /\ last.reportable_violations = {}
    /\ last.strict_mode_violations = {}

\* C12 as stated: a check without flags whose only findings are stale
\* entries does not fail the run
C12_StaleOnlyDoesNotFail ==
    (StaleOnly /\ last.flags = DefaultFlags) => exit_code(last.status) = 0

\* C12 as amended: a check whose only findings are stale entries fails the
\* run with the violations-present outcome, without any flag asking for it
C12_StaleOnlyFails ==
    StaleOnly => (last.status = "ViolationsFound" /\ exit_code(last.status) = 1)

\* a check without flags found a stale entry and no violation
C12_Witness ==
    /\ StaleOnly
    /\ last.flags = DefaultFlags
    /\ last.found_violations = {}

(***************************************************************************)
(* C13                                                                     *)
(***************************************************************************)
\* C13: a check that finds a stale entry ends with the violations-present
\* outcome, exit code 1, also without any other finding, and its JSON
\* summary has success false and counts the stale entries
C13_StaleFailsAndJsonCounts ==
    (last.op = "check" /\ last.stale_violations # {}) =>
        /\ last.status = "ViolationsFound"
        /\ exit_code(last.status) = 1
        /\ last.output_format = "json" =>
               \A o \in last.output : \A summary \in o.summary :
                   /\ ~summary.success
                   /\ summary.stale_todo_count = Cardinality(last.stale_violations)
                   /\ o.stale_todos = last.stale_violations

\* a JSON check found stale entries only: no violation in the summary
C13_Witness ==
    /\ StaleOnly
    /\ last.output_format = "json"
    /\ \E o \in last.output : \E summary \in o.summary :
          /\ summary.violation_count = 0
          /\ summary.strict_violation_count = 0
          /\ summary.stale_todo_count > 0

(***************************************************************************)
(* C14                                                                     *)
(***************************************************************************)
\* C14: whenever check finds a stale entry the hint to run update is
\* printed, whatever else it found and in every output format
C14_StaleAlwaysPrintsHint ==
    (last.op = "check" /\ last.stale_violations # {}) =>
        \A o \in last.output : o.stale_hint

(***************************************************************************)
(* Vocabulary of the format properties, written from the text of the file  *)
(***************************************************************************)
ExpectedCommand == IF packs_first_mode THEN "pks update" ELSE "bin/packwerk update-todo"

\* the text is what the standard writer produces for the pack: its header
\* names the pack and the command of the mode, and its entries ascend
InCanonicalForm(f, p) ==
    /\ f.kind = "yaml"
    /\ f.header = <<p, ExpectedCommand>>
    /\ \A i \in 1..(Len(f.entries) - 1) : entry_before(f.entries[i], f.entries[i + 1])

HasTodoFile(p) == todo_files[p] # {}

Offending(p) == \E f \in todo_files[p] : ~InCanonicalForm(f, p)

TodoErrors == { e \in last.validation_errors : e.kind \in {"read", "parse", "format"} }

TodoErrorsOf(p) == { e \in TodoErrors : e.pack = p }

\* C15: the format validator reports an error for a pack exactly when the
\* package_todo.yml of the pack exists and cannot be read, cannot be parsed or
\* differs from its canonical serialization; a pack without the file has no
\* error; every offending file has its one error, whatever the other files
\* are; a format error names `pks update` in packs-first mode and
\* `bin/packwerk update-todo` otherwise.
C15_FormatErrorIffDrift ==
    last.op = "validate" =>
        /\ \A p \in PackNames :
             /\ (TodoErrorsOf(p) # {}) <=> (HasTodoFile(p) /\ Offending(p))
             /\ ~HasTodoFile(p) => TodoErrorsOf(p) = {}
             /\ Cardinality(TodoErrorsOf(p)) <= 1
             /\ \A f \in todo_files[p] :
                  /\ f.kind = "unreadable" => MakeError("read", p, NoneVal) \in TodoErrors
                  /\ f.kind = "unparseable" => MakeError("parse", p, NoneVal) \in TodoErrors
                  /\ (f.kind = "yaml" /\ ~InCanonicalForm(f, p))
                       => MakeError("format", p, ExpectedCommand) \in TodoErrors
        /\ Cardinality(TodoErrors) = Cardinality({ p \in PackNames : HasTodoFile(p) /\ Offending(p) })
        /\ \A e \in TodoErrors : e.kind = "format" => e.command = ExpectedCommand

\* two files offend at once in packs-first mode, one of them by its format,
\* and the pack without a file has no error
C15_Witness ==
    /\ last.op = "validate"
    /\ packs_first_mode
    /\ MakeError("format", Foo, "pks update") \in last.validation_errors
    /\ MakeError("parse", Bar, NoneVal) \in last.validation_errors
    /\ ~HasTodoFile(RootPack)
    /\ TodoErrorsOf(RootPack) = {}

PathIn(pack_set, a, b) ==
    \E path \in SeqsUpTo(DOMAIN pack_set, Cardinality(DOMAIN pack_set)) :
        /\ Len(path) >= 1
        /\ path[1] = a
        /\ path[Len(path)] = b
        /\ \A i \in 1..(Len(path) - 1) : path[i + 1] \in pack_set[path[i]].dependencies

\* following the dependency edges from pack p leads back to p
LeadsBack(pack_set, p) ==
    \E d \in pack_set[p].dependencies \cap DOMAIN pack_set : PathIn(pack_set, d, p)

Cyclic(pack_set) == \E p \in DOMAIN pack_set : LeadsBack(pack_set, p)

DeclaresUnresolved(pack_set) ==
    \E p \in DOMAIN pack_set : \E d \in pack_set[p].dependencies : d \notin DOMAIN pack_set

DependencyErrors == { e \in last.validation_errors : e.kind \in {"unresolved", "cycle"} }

\* C18: check and validate leave every manifest and every package_todo.yml
\* as it is, whatever they find; a ledger changes only in an update, a
\* manifest only in an add_dependency.
C18_CheckAndValidateWriteNothing ==
    [][ /\ last'.op \in {"check", "validate"} =>
              /\ packs' = packs
              /\ todo_files' = todo_files
              /\ recorded' = recorded
        /\ (todo_files' # todo_files \/ recorded' # recorded) => last'.op = "update"
        /\ packs' # packs => last'.op = "add_dependency" ]_vars

\* validate reported a file that is not in the expected format, in a project
\* whose manifest add_dependency has changed, and the file is still as it was
C18_Witness ==
    /\ last.op = "validate"
    /\ MakeError("format", Foo, ExpectedCommand) \in last.validation_errors
    /\ Offending(Foo)
    /\ added # {}
    /\ recorded # {}

\* C19: validate fails when a pack declares a dependency that is not a pack of
\* the project, and when the dependency edges lead from a pack back to itself;
\* when every name resolves and no pack reaches itself, validate reports no
\* dependency error and no cycle error.
C19_ValidateFailsOnUnresolvedOrCycle ==
    last.op = "validate" =>
        /\ DeclaresUnresolved(packs) =>
              /\ last.status = "error"
              /\ \E e \in last.validation_errors : e.kind = "unresolved"
        /\ Cyclic(packs) =>
              /\ last.status = "error"
              /\ \E e \in last.validation_errors : e.kind = "cycle"
        /\ (~DeclaresUnresolved(packs) /\ ~Cyclic(packs)) => DependencyErrors = {}

\* validate failed on the cycle packs/foo -> packs/bar -> root -> packs/foo,
\* with every package_todo.yml in the expected format
C19_Witness ==
    /\ last.op = "validate"
    /\ Bar \in packs[Foo].dependencies
    /\ RootPack \in packs[Bar].dependencies
    /\ Foo \in packs[RootPack].dependencies
    /\ added = {}
    /\ TodoErrors = {}
    /\ last.status = "error"
    /\ \E e \in last.validation_errors : e.kind = "cycle"

\* C20: when add_dependency(from, to) writes an edge that closes a cycle, the
\* edge stays in the manifest of from, whose dependencies are the previous
\* ones and to; no other manifest changes; the command succeeds and prints
\* the warning.
C20_CycleEdgeIsKeptWithWarning ==
    [][ \A from \in PackNames, to \in PackNames :
          ( /\ last'.op = "add_dependency"
            /\ last'.args = <<from, to>>
            /\ to \notin packs[from].dependencies
            /\ PathIn(packs, to, from) ) =>
              /\ packs'[from].dependencies = packs[from].dependencies \cup {to}
              /\ packs'[from] = [packs[from] EXCEPT !.dependencies = @ \cup {to}]
              /\ \A p \in PackNames \ {from} : packs'[p] = packs[p]
              /\ Cyclic(packs')
              /\ last'.status = "ok"
              /\ exit_code(last'.status) = 0
              /\ last'.message = "Warning: This creates a cycle!" ]_vars

\* packs/bar declared packs/foo, add_dependency wrote packs/foo -> packs/bar,
\* succeeded with the warning, and both edges are in the manifests
C20_Witness ==
    /\ last.op = "add_dependency"
    /\ last.args = <<Foo, Bar>>
    /\ last.status = "ok"
    /\ last.message = "Warning: This creates a cycle!"
    /\ Foo \in packs[Bar].dependencies
    /\ Bar \in packs[Foo].dependencies
    /\ <<Foo, Bar>> \in added

\* C21: from manifests in which no pack declares itself, no sequence of
\* add_dependency commands (add_dependency(P, P) among them) leaves a pack
\* whose dependencies contain its own name.
C21_NoPackDependsOnItself ==
    \A p \in DOMAIN packs : packs[p].name \notin packs[p].dependencies

\* the packs that own the two ends of a reference, looked up from its files
UsesEdge(r, a, b) ==
    /\ FileDir(r.relative_referencing_file) = a
    /\ r.relative_defining_file # NoneVal
    /\ FileDir(r.relative_defining_file) = b

\* the declared edges (A, B) such that no resolved reference from a file of A
\* targets a file of B
UnusedEdges(pack_set) ==
    { edge \in (DOMAIN pack_set) \X (UNION { pack_set[p].dependencies : p \in DOMAIN pack_set }) :
        /\ edge[2] \in pack_set[edge[1]].dependencies
        /\ ~\E r \in references : UsesEdge(r, edge[1], edge[2]) }

UnusedOf(pack_set, p) == { edge[2] : edge \in { e \in UnusedEdges(pack_set) : e[1] = p } }

\* C22: check_unnecessary_dependencies reports, and its auto-correct removes,
\* exactly the declared edges (A, B) that no resolved reference from a file of
\* A to a file of B uses; the report fails with the number of these edges
\* when there is one and succeeds when there is none, and writes nothing;
\* auto-correct succeeds and leaves the used edges, the other keys of every
\* manifest and the order of the keys as they were.
C22_UnusedEdgesReportedAndRemoved ==
    [][ last'.op = "check_unnecessary_dependencies" =>
          /\ last'.unused = UnusedEdges(packs)
          /\ last'.count = Cardinality(UnusedEdges(packs))
          /\ last'.args = <<FALSE>> =>
                /\ packs' = packs
                /\ (UnusedEdges(packs) # {}) <=> (last'.status = "error")
                /\ (UnusedEdges(packs) = {}) <=> (last'.status = "ok")
          /\ last'.args = <<TRUE>> =>
                /\ last'.status = "ok"
                /\ \A p \in DOMAIN packs :
                     /\ packs'[p].dependencies = packs[p].dependencies \ UnusedOf(packs, p)
                     /\ packs'[p] = [packs[p] EXCEPT !.dependencies = packs'[p].dependencies]
                     /\ packs'[p].key_order = packs[p].key_order
                /\ UnusedEdges(packs') = {} ]_vars

\* auto-correct removed packs/bar -> root and root -> packs/foo, which no
\* reference uses, and left packs/foo -> packs/bar, which foo.rb uses
C22_Witness ==
    /\ last.op = "check_unnecessary_dependencies"
    /\ last.args = <<TRUE>>
    /\ last.unused = {<<Bar, RootPack>>, <<RootPack, Foo>>}
    /\ packs[Foo].dependencies = {Bar}
    /\ packs[Bar].dependencies = {}
    /\ packs[RootPack].dependencies = {}

Failed == last.status \notin {"ok", "ViolationsFound"}

\* C23: the exit status is 0 when the command succeeded (a check then found
\* nothing), 1 exactly when it ended with ViolationsFound, and 2 for every
\* other error, a project root that does not exist among them; an error is
\* never reported with status 1, violations never with status 2.
C23_ExitStatusSeparatesOutcomes ==
    /\ exit_code(last.status) \in {0, 1, 2}
    /\ exit_code(last.status) = 0 <=> last.status = "ok"
    /\ exit_code(last.status) = 1 <=> last.status = "ViolationsFound"
    /\ exit_code(last.status) = 2 <=> Failed
    /\ last.status = "ViolationsFound" =>
          /\ last.op = "check"
          /\ last.reportable_violations \cup last.stale_violations
               \cup last.strict_mode_violations # {}
    /\ (last.op = "check" /\ last.status = "ok") =>
          last.reportable_violations \cup last.stale_violations
            \cup last.strict_mode_violations = {}
    /\ last.message = "project root not found" => exit_code(last.status) = 2

\* a check of a project root that does not exist ended with status 2
C23_Witness ==
    /\ last.op = "check"
    /\ last.message = "project root not found"
    /\ Failed
    /\ exit_code(last.status) = 2

\* the arguments of the last list_definitions
ListedWithFullTable == last.args[1]
ListedAmbiguousOnly == last.args[2]
ListedMap == last.args[3]

\* the definitions of the names that have more than one definition
AmbiguousDefinitions(map) ==
    { <<name, i, map[name][i]>> :
        <<name, i>> \in { <<n, j>> \in (DOMAIN map) \X (1..MaxDefinitions) :
                            Len(map[n]) > 1 /\ j <= Len(map[n]) } }

\* C24: list_definitions with the ambiguous option lists, under the full
\* symbol-table strategy, exactly the definitions of the names that have more
\* than one definition; under the convention-based strategy it fails with a
\* usage error, builds no resolver and lists nothing.
C24_AmbiguousListsMultiplyDefined ==
    (last.op = "list_definitions" /\ ListedAmbiguousOnly) =>
        /\ ListedWithFullTable =>
              /\ last.status = "ok"
              /\ last.lines = AmbiguousDefinitions(ListedMap)
              /\ \A name \in DOMAIN ListedMap :
                    Len(ListedMap[name]) = 1 => ~\E l \in last.lines : l[1] = name
        /\ ~ListedWithFullTable =>
              /\ Failed
              /\ last.resolver = NoneVal
              /\ last.lines = {}

\* ::Foo is defined in two files and listed with both; ::String has one
\* definition and is not listed
C24_Witness ==
    /\ last.op = "list_definitions"
    /\ ListedAmbiguousOnly
    /\ ListedWithFullTable
    /\ ListedMap["::Foo"] = <<FooFile, OtherFooFile>>
    /\ Len(ListedMap["::String"]) = 1
    /\ last.lines = {<<"::Foo", 1, FooFile>>, <<"::Foo", 2, OtherFooFile>>}

\* the violations of a set of references, whatever the order they were checked in
ViolationsOfReferences(refs, flags) ==
    UNION { checker_check(tr[1], tr[2], get_configuration(flags)) :
              tr \in CheckerTypes \X refs }

\* C25: for fixed files, packs, ledgers and flags, the violations a check
\* produces and their identifiers are the same under every order in which
\* the workers convert and check the references: at every point of a run
\* what has been collected depends only on which references were processed,
\* and the finished run holds the violations of the input.
C25_ViolationsIndependentOfWorkerOrder ==
    /\ last.op = "extracting" =>
          last.extracted = { r \in references \cup {OutsideToBar} :
                               /\ RawReference(r) \notin last.pending_raw
                               /\ r.referencing_pack_name # NoneVal }
    /\ last.op = "checking" =>
          /\ last.extracted = references
          /\ last.found_violations
               = ViolationsOfReferences(references \ last.pending_check, last.flags)
    /\ last.op = "check" =>
          /\ last.found_violations = ViolationsOfReferences(references, last.flags)
          /\ { v.identifier : v \in last.found_violations } = CurrentIdentifiers(last.flags)
          /\ last.reportable_violations
               = check_all(get_configuration(last.flags)).reportable_violations
          /\ last.strict_mode_violations
               = check_all(get_configuration(last.flags)).strict_mode_violations

\* a run whose workers found two violations has finished
C25_Witness ==
    /\ last.op = "check"
    /\ last.extracted = references
    /\ last.pending_check = {}
    /\ Cardinality(last.found_violations) >= 2
    /\ last.reportable_violations # {}

\* C26: the order of the rows is a function of the result sets: two checks
\* in a row, written in the same format from equal reportable and strict
\* sets, write every violation in the same order.
C26_RowsInSameOrder ==
    [][ ( /\ last.op = "check" /\ last'.op = "check"
          /\ last.status # "error" /\ last'.status # "error"
          /\ last'.output_format = last.output_format
          /\ last'.reportable_violations = last.reportable_violations
          /\ last'.strict_mode_violations = last.strict_mode_violations )
        => last'.rendered = last.rendered ]_vars

\* the directories from dir upwards to the root
RECURSIVE AncestorsOrSelf(_)
AncestorsOrSelf(dir) ==
    IF dir = RootDir THEN {RootDir} ELSE {dir} \cup AncestorsOrSelf(parent(dir))

\* the nearest directory from dir upwards that holds a manifest, the root
\* when there is none
NearestManifestDir(dir, manifest_dirs) ==
    LET holding == AncestorsOrSelf(dir) \cap manifest_dirs
    IN  IF holding = {} THEN RootDir
        ELSE CHOOSE d \in holding : \A e \in holding : e \in AncestorsOrSelf(d)

\* C27: every included file has exactly one owner, the pack whose manifest
\* is in the nearest directory above the file that holds a manifest, or the
\* root pack when there is none, and the owner is a pack of the pack set.
C27_OwnerIsNearestPackOfSet ==
    last.op = "walk_directory" =>
      /\ DOMAIN last.owning_package_yml_for_file = last.included_files
      /\ \A f \in last.included_files :
           /\ last.owning_package_yml_for_file[f]
                = package_yml_of(NearestManifestDir(f[1], last.walked[1]))
           /\ last.owning_package_yml_for_file[f][1] \in last.included_packs

\* C28: add_dependency(from, to) writes the manifest of from only when both
\* packs exist and to is not yet among the dependencies of from. With a
\* missing pack it fails, with a declared dependency it succeeds, and in
\* both cases no manifest and no other file is written; when it writes, it
\* writes the manifest of from and nothing else.
C28_WritesOnlyForNewEdgeBetweenPacks ==
    [][ \A from \in AddNames, to \in AddNames :
          ( /\ last'.op = "add_dependency"
            /\ last'.args = <<from, to>> ) =>
              LET missing == from \notin DOMAIN packs \/ to \notin DOMAIN packs
                  declared == ~missing /\ to \in packs[from].dependencies
              IN  /\ missing => /\ last'.status = "error"
                                /\ exit_code(last'.status) = 2
                                /\ packs' = packs
                  /\ declared => /\ last'.status = "ok"
                                 /\ exit_code(last'.status) = 0
                                 /\ packs' = packs
                  /\ packs' # packs =>
                        /\ ~missing /\ ~declared
                        /\ \A p \in DOMAIN packs \ {from} : packs'[p] = packs[p]
                  /\ todo_files' = todo_files
                  /\ recorded' = recorded
                  /\ references' = references ]_vars

\* packs/foo -> packs/bar was written by an earlier add_dependency, and the
\* same command, given again, succeeded without writing
C28_Witness ==
    /\ last.op = "add_dependency"
    /\ last.args = <<Foo, Bar>>
    /\ last.message = "already depends"
    /\ last.status = "ok"
    /\ <<Foo, Bar>> \in added
    /\ Bar \in packs[Foo].dependencies

\* C29: after add_dependency has written the new edge, the cycle warning is
\* printed exactly when the dependencies, the new edge among them, contain a
\* cycle; when they are acyclic the plain success message is printed,
\* whatever else validation finds in the project.
C29_WarningOnlyForCycle ==
    [][ \A from \in PackNames, to \in PackNames :
          ( /\ last'.op = "add_dependency"
            /\ last'.args = <<from, to>>
            /\ packs' # packs ) =>
              /\ Cyclic(packs') => last'.message = "Warning: This creates a cycle!"
              /\ ~Cyclic(packs') => last'.message = "Successfully added" ]_vars

\* C30: a call of checkable never aborts, for any reference and any of the
\* five checker types: with an unresolved defining pack it returns
\* not-checkable, and with a resolved defining pack and no defining file the
\* outgoing checks (Dependency, Layer) still return a result.
C30_CheckableNeverAborts ==
    last.op = "checkable" =>
      /\ last.status \in {"Ok(true)", "Ok(false)"}
      /\ last.args[2].defining_pack_name = NoneVal => last.status = "Ok(false)"

====
